---- MODULE Spec2Model ----
(***************************************************************************)
(* Model of the Projects Tracker backend (backend/app): the JSON-file      *)
(* repository (storage.py), the Excel import codec (exporters.py) and the  *)
(* HTTP handlers that join them (main.py).                                 *)
(*                                                                         *)
(* Conventions                                                             *)
(*  - a Python str is a sequence of one-character strings; str.lower() and *)
(*    str.strip() are computed character by character;                     *)
(*  - a spreadsheet cell is a record [t, s, n]: t is the Python type of    *)
(*    the value openpyxl returns ("none", "str", "int", "bool"), s the     *)
(*    text of a str, n the number of an int or bool;                       *)
(*  - an Optional[int] field is <<>> (None) or <<k>>; a UUID is a positive *)
(*    integer drawn from the counter nextUuid (uuid4 never repeats), and   *)
(*    0 stands for an absent UUID;                                         *)
(*  - a function that raises returns a record whose exc field names the    *)
(*    exception; exc = "none" is a normal return;                          *)
(*  - header titles are ASCII renderings of the Russian column titles of   *)
(*    the source, listed next to HeaderLower.                              *)
(***************************************************************************)
EXTENDS Integers, Sequences, FiniteSets, TLC

VARIABLES
    store,      \* LocalRepository.store : DataStore (in memory)
    disk,       \* the files: file 1 is the JSON document at LocalRepository.path
    nextUuid,   \* the next value uuid4() returns
    request,    \* the upload waiting to be handled: <<>> or <<request>>
    last        \* the last call made: its name, arguments and outcome

vars == <<store, disk, nextUuid, request, last>>

(***************************************************************************)
(* Bounds of the model.                                                    *)
(***************************************************************************)
MaxProjects == 2     \* stored projects
MaxShortId  == 3     \* cap of DataStore.next_project_short_id
MaxUuid     == 3     \* project ids a caller of the repository may pass
MaxBatch    == 2     \* projects in one import_projects batch
MaxRows     == 2     \* data rows of an uploaded sheet
MaxSubRows  == 1     \* data rows of a legacy "tasks" or "subtasks" sheet

(***************************************************************************)
(* Generic helpers.                                                        *)
(***************************************************************************)
\* the element of a one-element set; "Only({ e(x) : x \in {v} })" is e(v)
\* with v evaluated once
Only(S) == CHOOSE x \in S : TRUE

Max2(a, b) == IF a >= b THEN a ELSE b

Range(f) == {f[i] : i \in DOMAIN f}

RECURSIVE SeqMax(_, _)
\* max(seq, default=d) for a sequence of integers
SeqMax(seq, d) ==
    IF seq = <<>> THEN d
    ELSE LET m == SeqMax(Tail(seq), d)
         IN  IF Tail(seq) = <<>> THEN Head(seq) ELSE Max2(Head(seq), m)

SeqsUpTo(S, n) == UNION {[1..k -> S] : k \in 0..n}

RemoveAt(seq, i) == SubSeq(seq, 1, i - 1) \o SubSeq(seq, i + 1, Len(seq))

RECURSIVE KeyLess(_, _)
\* a < b for two sort keys, tuples of numbers compared as Python compares
\* tuples (a str enters a key as its code points, see Codes)
KeyLess(a, b) ==
    IF b = <<>> THEN FALSE
    ELSE IF a = <<>> THEN TRUE
    ELSE IF Head(a) = Head(b) THEN KeyLess(Tail(a), Tail(b))
    ELSE Head(a) < Head(b)

RECURSIVE SortedIdx(_, _)
\* the indices of a list in the order list.sort(key=...) leaves them, keys[i]
\* being the key of element i: equal keys keep their order (stable)
SortedIdx(keys, todo) ==
    IF todo = {} THEN <<>>
    ELSE Only({ <<i>> \o SortedIdx(keys, todo \ {i}) :
                  i \in {a \in todo :
                            \A b \in todo :
                                \/ KeyLess(keys[a], keys[b])
                                \/ (~KeyLess(keys[b], keys[a]) /\ a <= b)} })

\* seq after seq.sort(key=...)
StableSort(seq, keys) ==
    Only({ [k \in DOMAIN seq |-> seq[idx[k]]] :
             idx \in {SortedIdx(keys, DOMAIN seq)} })

\* the keys of "key=lambda x: x.order"
OrderKeys(seq) == [i \in DOMAIN seq |-> <<seq[i].order>>]

(***************************************************************************)
(* Python strings.                                                         *)
(***************************************************************************)
\* the characters the model's cell texts are drawn from
Chars == {"a", "A", "b", " ", "1", "2"}

UpperLetters ==
    <<"A", "B", "C", "D", "E", "F", "G", "H", "I", "J", "K", "L", "M",
      "N", "O", "P", "Q", "R", "S", "T", "U", "V", "W", "X", "Y", "Z">>

LowerLetters ==
    <<"a", "b", "c", "d", "e", "f", "g", "h", "i", "j", "k", "l", "m",
      "n", "o", "p", "q", "r", "s", "t", "u", "v", "w", "x", "y", "z">>

\* the characters of the model in code-point order (the order of str < str)
AsciiOrder ==
    <<" ", "-", "0", "1", "2", "3", "4", "5", "6", "7", "8", "9", ":", ";",
      "A", "B", "C", "D", "E", "F", "G", "H", "I", "J", "K", "L", "M", "N", "O", "P", "Q", "R", "S", "T", "U", "V", "W", "X", "Y", "Z",
      "[", "]", "_", "a", "b", "c", "d", "e", "f", "g", "h", "i", "j", "k", "l", "m", "n", "o", "p", "q", "r", "s", "t", "u", "v", "w", "x", "y", "z">>

IndexIn(seq, c) == CHOOSE i \in DOMAIN seq : seq[i] = c

\* str.lower() and str.upper() of one character
LowerChar(c) ==
    IF c \in Range(UpperLetters) THEN LowerLetters[IndexIn(UpperLetters, c)] ELSE c
UpperChar(c) ==
    IF c \in Range(LowerLetters) THEN UpperLetters[IndexIn(LowerLetters, c)] ELSE c

\* str.lower(), str.upper()
Lower(s) == [i \in DOMAIN s |-> LowerChar(s[i])]
Upper(s) == [i \in DOMAIN s |-> UpperChar(s[i])]

RECURSIVE LStrip(_)
LStrip(s) == IF s # <<>> /\ Head(s) = " " THEN LStrip(Tail(s)) ELSE s

RECURSIVE RStrip(_)
RStrip(s) ==
    IF s # <<>> /\ s[Len(s)] = " " THEN RStrip(SubSeq(s, 1, Len(s) - 1)) ELSE s

\* str.strip()
Strip(s) == RStrip(LStrip(s))

\* str.startswith(prefix)
StartsWith(s, prefix) ==
    Len(s) >= Len(prefix) /\ SubSeq(s, 1, Len(prefix)) = prefix

\* the code points of a str, in whose order Python compares str
Codes(s) == [i \in DOMAIN s |-> IndexIn(AsciiOrder, s[i])]

Digits == <<"0", "1", "2", "3", "4", "5", "6", "7", "8", "9">>

IsDigit(c) == c \in Range(Digits)

DigitValue(c) == IndexIn(Digits, c) - 1

RECURSIVE DigitsValue(_)
DigitsValue(s) ==
    IF s = <<>> THEN 0
    ELSE 10 * DigitsValue(SubSeq(s, 1, Len(s) - 1)) + DigitValue(s[Len(s)])

\* int(text) accepts surrounding whitespace and raises ValueError otherwise
\* (signs and underscores do not occur in the model's texts)
IntParses(s) == Strip(s) # <<>> /\ \A i \in DOMAIN Strip(s) : IsDigit(Strip(s)[i])
IntOfStr(s) == DigitsValue(Strip(s))

RECURSIVE StrOfInt(_)
\* str(k) for k >= 0
StrOfInt(k) ==
    IF k < 10 THEN <<Digits[k + 1]>>
    ELSE StrOfInt(k \div 10) \o <<Digits[(k % 10) + 1]>>

(***************************************************************************)
(* Spreadsheet cells (the values of sheet.iter_rows(values_only=True)).    *)
(***************************************************************************)
NoneCell == [t |-> "none", s |-> <<>>, n |-> 0]
StrCell(x) == [t |-> "str", s |-> x, n |-> 0]
IntCell(k) == [t |-> "int", s |-> <<>>, n |-> k]
BoolCell(b) == [t |-> "bool", s |-> <<>>, n |-> IF b THEN 1 ELSE 0]
\* a date (read back as a datetime at midnight): the day d of January 1970
DateCell(d) == [t |-> "date", s |-> <<>>, n |-> d]

\* Python truthiness: "if value:" / "not value"
Truthy(c) ==
    CASE c.t = "none" -> FALSE
      [] c.t = "str"  -> c.s # <<>>
      [] c.t = "date" -> TRUE
      [] OTHER        -> c.n # 0

\* str(value)
StrOf(c) ==
    CASE c.t = "str"  -> c.s
      [] c.t = "int"  -> StrOfInt(c.n)
      [] c.t = "bool" -> IF c.n = 1 THEN <<"T", "r", "u", "e">> ELSE <<"F", "a", "l", "s", "e">>
      [] c.t = "date" -> <<"1", "9", "7", "0", "-", "0", "1", "-">> \o
                         (IF c.n < 10 THEN <<"0">> ELSE <<>>) \o StrOfInt(c.n)
      [] OTHER        -> <<"N", "o", "n", "e">>

\* "value not in (None, '')"
PresentCell(c) == ~(c.t = "none" \/ (c.t = "str" /\ c.s = <<>>))

\* whether int(value) returns; int(None) raises TypeError, int("x") ValueError,
\* both caught together wherever the importers call int()
IntOk(c) ==
    CASE c.t = "none" -> FALSE
      [] c.t = "str"  -> IntParses(c.s)
      [] c.t = "date" -> FALSE
      [] OTHER        -> TRUE

IntOf(c) == IF c.t = "str" THEN IntOfStr(c.s) ELSE c.n

\* "all(cell is None for cell in row)"
AllNone(row) == \A i \in DOMAIN row : row[i].t = "none"

(***************************************************************************)
(* Domain models (models.py) and the store (storage.py).                   *)
(***************************************************************************)
\* Project(...): the fields the repository and the codec read or write
Project(id, short_id, group_id, name) ==
    [id |-> id, short_id |-> short_id, group_id |-> group_id, name |-> name,
     brand |-> <<>>, market |-> StrCell(<<>>), status |-> "in_progress",
     current_gtm_stage_id |-> 0, planned_launch |-> [t |-> "none", s |-> <<>>, n |-> 0],
     custom_fields |-> <<>>, gtm_stages |-> <<>>, tasks |-> <<>>,
     characteristics |-> <<>>, images |-> <<>>, history |-> <<>>]

ProductGroup(id, name) ==
    [id |-> id, name |-> name, status |-> "active", brands |-> <<>>,
     extra_fields |-> <<>>]

\* DataStore(): the empty store load_store returns when the file is absent
DataStore ==
    [product_groups |-> <<>>, projects |-> <<>>, gtm_templates |-> <<>>,
     next_project_short_id |-> 1]

\* the fields of Project, GTMStage and Task that may hold None, with the
\* value that stands for None
ProjectNone == [short_id |-> <<>>, current_gtm_stage_id |-> 0, planned_launch |-> NoneCell]
StageNone ==
    [description |-> NoneCell, planned_start |-> NoneCell, planned_end |-> NoneCell,
     actual_end |-> NoneCell]
TaskNone == [description |-> NoneCell, due_date |-> NoneCell, gtm_stage_id |-> 0]

\* "exclude_none=True": the object of a model without the fields that hold None
exclude_none(model, none) ==
    [k \in {f \in DOMAIN model : ~(f \in DOMAIN none /\ model[f] = none[f])} |-> model[k]]

\* validation of a model's object: an absent optional field takes its
\* default, None
validate(object, none) ==
    [k \in DOMAIN object \cup DOMAIN none |->
        IF k \in DOMAIN object THEN object[k] ELSE none[k]]

\* the object of a project in the document
DumpProject(project) ==
    exclude_none([project EXCEPT
                     !.gtm_stages = [i \in DOMAIN @ |-> exclude_none(@[i], StageNone)],
                     !.tasks = [i \in DOMAIN @ |-> exclude_none(@[i], TaskNone)]],
                 ProjectNone)

\* the project an object of the document validates to
LoadProject(object) ==
    [validate(object, ProjectNone) EXCEPT
        !.gtm_stages = [i \in DOMAIN @ |-> validate(@[i], StageNone)],
        !.tasks = [i \in DOMAIN @ |-> validate(@[i], TaskNone)]]

\* store.model_dump_json(exclude_none=True) (line 72)
model_dump_json(st) ==
    [st EXCEPT !.projects = [i \in DOMAIN @ |-> DumpProject(@[i])]]

\* a validation that gives absent fields no value
model_validate_as_is(document) == document

\* DataStore.model_validate_json(text) (line 79)
model_validate_json(document) ==
    [document EXCEPT !.projects = [i \in DOMAIN @ |-> LoadProject(@[i])]]

\* _write_json(path, store): the file holds the document of the whole store
save(st) == <<model_dump_json(st)>>

\* load_store(path) on a file that exists
load_store(file) == model_validate_json(file[1])

(***************************************************************************)
(* LocalRepository: projects (storage.py).  Every method is a function of  *)
(* the store that returns the new store, the exception raised ("none" for  *)
(* a normal return) and whether save() ran.                                *)
(***************************************************************************)
Ret(st, exc, saved) == [store |-> st, exc |-> exc, saved |-> saved]

\* "p.short_id or 0"
ShortIdOr0(p) == IF p.short_id = <<>> THEN 0 ELSE p.short_id[1]

RECURSIVE AssignShortIds(_, _)
\* the loop of _ensure_project_short_ids: projects without a short_id take
\* counter, counter + 1, ... in list order
AssignShortIds(projects, counter) ==
    IF projects = <<>> THEN [projects |-> <<>>, counter |-> counter]
    ELSE IF Head(projects).short_id = <<>>
         THEN LET rest == AssignShortIds(Tail(projects), counter + 1)
              IN  [projects |-> <<[Head(projects) EXCEPT !.short_id = <<counter>>]>>
                                    \o rest.projects,
                   counter |-> rest.counter]
         ELSE LET rest == AssignShortIds(Tail(projects), counter)
              IN  [projects |-> <<Head(projects)>> \o rest.projects,
                   counter |-> rest.counter]

\* LocalRepository._ensure_project_short_ids
ensure_project_short_ids(st) ==
    LET max_id  == SeqMax([i \in DOMAIN st.projects |-> ShortIdOr0(st.projects[i])], 0)
        counter == Max2(st.next_project_short_id, max_id + 1)
        done    == AssignShortIds(st.projects, counter)
        changed == done.projects # st.projects
                   \/ done.counter # st.next_project_short_id
    IN  Ret([st EXCEPT !.projects = done.projects,
                       !.next_project_short_id = done.counter],
            "none", changed)

\* the index of the first project with this id, 0 when there is none
FirstIndex(projects, project_id) ==
    IF \E i \in DOMAIN projects : projects[i].id = project_id
    THEN CHOOSE i \in DOMAIN projects :
             /\ projects[i].id = project_id
             /\ \A j \in DOMAIN projects : projects[j].id = project_id => i <= j
    ELSE 0

\* LocalRepository.get_project
get_project(st, project_id) == FirstIndex(st.projects, project_id)

\* LocalRepository.add_project
add_project(st, project) ==
    LET withId == IF project.short_id = <<>>
                  THEN [project EXCEPT !.short_id = <<st.next_project_short_id>>]
                  ELSE project
        next   == IF project.short_id = <<>>
                  THEN st.next_project_short_id + 1
                  ELSE st.next_project_short_id
    IN  Ret([st EXCEPT !.projects = Append(st.projects, withId),
                       !.next_project_short_id = next],
            "none", TRUE)

\* LocalRepository.update_project
update_project(st, project_id, updated) ==
    LET idx == FirstIndex(st.projects, project_id)
    IN  IF idx = 0 THEN Ret(st, "KeyError", FALSE)
        ELSE LET u == IF updated.short_id = <<>>
                      THEN [updated EXCEPT !.short_id = st.projects[idx].short_id]
                      ELSE updated
             IN  Ret([st EXCEPT !.projects[idx] = u], "none", TRUE)

\* LocalRepository.replace_project
replace_project(st, project_id, updated) ==
    LET idx == FirstIndex(st.projects, project_id)
    IN  IF idx = 0 THEN Ret(st, "KeyError", FALSE)
        ELSE LET u == IF updated.short_id = <<>>
                      THEN [updated EXCEPT !.short_id = st.projects[idx].short_id]
                      ELSE updated
             IN  Ret([st EXCEPT !.projects[idx] = [u EXCEPT !.id = project_id]],
                     "none", TRUE)

\* LocalRepository.delete_project
delete_project(st, project_id) ==
    LET idx == FirstIndex(st.projects, project_id)
    IN  IF idx = 0 THEN Ret(st, "KeyError", FALSE)
        ELSE Ret([st EXCEPT !.projects = RemoveAt(st.projects, idx)], "none", TRUE)

\* "existing_map = {p.id: idx ...}": a later project with the same id wins
ExistingIndex(projects, project_id) ==
    IF \E i \in DOMAIN projects : projects[i].id = project_id
    THEN CHOOSE i \in DOMAIN projects :
             /\ projects[i].id = project_id
             /\ \A j \in DOMAIN projects : projects[j].id = project_id => j <= i
    ELSE 0

RECURSIVE UpsertLoop(_, _, _, _)
\* the loop of import_projects over the batch; existing is the project list
\* as it was at the call (existing_map is not refreshed inside the loop)
UpsertLoop(existing, updated_projects, next, batch) ==
    IF batch = <<>> THEN [projects |-> updated_projects, next |-> next]
    ELSE LET project == Head(batch)
             idx     == ExistingIndex(existing, project.id)
         IN  IF idx # 0
             THEN UpsertLoop(existing, [updated_projects EXCEPT ![idx] = project],
                             next, Tail(batch))
             ELSE IF project.short_id = <<>>
                  THEN UpsertLoop(existing,
                                  Append(updated_projects,
                                         [project EXCEPT !.short_id = <<next>>]),
                                  next + 1, Tail(batch))
                  ELSE UpsertLoop(existing, Append(updated_projects, project),
                                  next, Tail(batch))

\* import_projects as a full replace: the stored list becomes the batch
import_projects_replacing(st, projects) ==
    Ret(ensure_project_short_ids([st EXCEPT !.projects = projects]).store,
        "none", TRUE)

\* LocalRepository.import_projects
import_projects(st, projects) ==
    LET looped == UpsertLoop(st.projects, st.projects, st.next_project_short_id,
                             projects)
        merged == [st EXCEPT !.projects = looped.projects,
                             !.next_project_short_id = looped.next]
    IN  Ret(ensure_project_short_ids(merged).store, "none", TRUE)

\* LocalRepository.__init__ on a store file holding st
open_repository(st) == ensure_project_short_ids(st).store


(***************************************************************************)
(* Scenario Spec: the repository's project operations, called in any       *)
(* order on a repository opened without a store file.  The caller passes   *)
(* Project models: their id is the caller's (a payload id or uuid4), their *)
(* short_id is absent or preset (a payload value, a "short id" cell).      *)
(***************************************************************************)
ProjectIds == 1..MaxUuid

ShortIdInputs == {<<>>, <<1>>, <<2>>}

ProjectInputs ==
    {Project(id, sid, 1, <<"a">>) : id \in ProjectIds, sid \in ShortIdInputs}

\* the record of a repository call: its name, the ids and the models passed,
\* and the exception it raised
Called(op, ids, arg, exc) == [op |-> op, ids |-> ids, arg |-> arg, exc |-> exc]

\* what a repository call leaves behind: the store it returns and, when
\* save() ran, the rewritten document next to the other files
Commit(r) ==
    /\ store' = r.store
    /\ disk' = IF r.saved THEN save(r.store) @@ disk ELSE disk

InBounds(st) ==
    /\ Len(st.projects) <= MaxProjects
    /\ st.next_project_short_id <= MaxShortId

Init ==
    /\ store = DataStore
    /\ disk = <<>>
    /\ nextUuid = 1
    /\ request = <<>>
    /\ last = Called("init", {}, <<>>, "none")

AddProject ==
    \E project \in ProjectInputs :
        LET r == add_project(store, project)
        IN  /\ InBounds(r.store)
            /\ Commit(r)
            /\ last' = Called("add_project", {project.id}, <<project>>, r.exc)
            /\ UNCHANGED <<nextUuid, request>>

UpdateProject ==
    \E project_id \in ProjectIds, updated \in ProjectInputs :
        LET r == update_project(store, project_id, updated)
        IN  /\ Commit(r)
            /\ last' = Called("update_project", {project_id}, <<updated>>, r.exc)
            /\ UNCHANGED <<nextUuid, request>>

ReplaceProject ==
    \E project_id \in ProjectIds, updated \in ProjectInputs :
        LET r == replace_project(store, project_id, updated)
        IN  /\ Commit(r)
            /\ last' = Called("replace_project", {project_id}, <<updated>>, r.exc)
            /\ UNCHANGED <<nextUuid, request>>

DeleteProject ==
    \E project_id \in ProjectIds :
        LET r == delete_project(store, project_id)
        IN  /\ Commit(r)
            /\ last' = Called("delete_project", {project_id}, <<>>, r.exc)
            /\ UNCHANGED <<nextUuid, request>>

ImportProjects ==
    \E batch \in SeqsUpTo(ProjectInputs, MaxBatch) :
        LET r == import_projects(store, batch)
        IN  /\ InBounds(r.store)
            /\ Commit(r)
            /\ last' = Called("import_projects",
                              {batch[i].id : i \in DOMAIN batch}, batch, r.exc)
            /\ UNCHANGED <<nextUuid, request>>

Next ==
    \/ AddProject
    \/ UpdateProject
    \/ ReplaceProject
    \/ DeleteProject
    \/ ImportProjects

Spec == Init /\ [][Next]_vars

(***************************************************************************)
(* Claims about the repository's project operations (checked under Spec).  *)
(***************************************************************************)
ShortIdsOf(projects) == {projects[i].short_id : i \in DOMAIN projects}

\* C2: a brand-new project that arrives at add_project without a short_id
\* is given the next unused counter value: a short_id that no project
\* stored at the call holds, so that short_ids stay pairwise distinct.
C2_NewProjectGetsUnusedShortId ==
    [][(/\ last'.op = "add_project"
        /\ last'.arg[1].short_id = <<>>
        /\ \A i \in DOMAIN store.projects : store.projects[i].id # last'.arg[1].id)
         => store'.projects[Len(store'.projects)].short_id
                \notin ShortIdsOf(store.projects)]_vars

\* C4: import_projects(batch) leaves every stored project whose id does not
\* occur in the batch unchanged and at the same position, and the number
\* of stored projects does not decrease.
C4_UpsertKeepsUnmatched ==
    [][last'.op = "import_projects"
         => /\ Len(store'.projects) >= Len(store.projects)
            /\ \A i \in DOMAIN store.projects :
                   store.projects[i].id \notin last'.ids
                       => /\ i \in DOMAIN store'.projects
                          /\ store'.projects[i] = store.projects[i]]_vars

\* C4 witness: an import whose batch names one stored project and not another
C4_Witness ==
    /\ last.op = "import_projects"
    /\ \E i, j \in DOMAIN store.projects :
           /\ store.projects[i].id \in last.ids
           /\ store.projects[j].id \notin last.ids
(***************************************************************************)
(* Excel import codec (exporters.py): workbooks, headers, shared parsers.   *)
(* A sheet is [header, rows]: header is the first row (a sequence of cells, *)
(* <<>> when iter_rows yields nothing) and rows are the value tuples from   *)
(* row 2 on.  A column index is 1-based and 0 stands for col() = None.      *)
(* An uploaded file is [readable, active, tasks, subtasks]: readable tells  *)
(* whether load_workbook returns, active is workbook.active, tasks and      *)
(* subtasks are <<>> or <<sheet>> for the sheets of those names.            *)
(***************************************************************************)
Sheet(header, rows) == [header |-> header, rows |-> rows]

Workbook(active, tasks, subtasks) ==
    [readable |-> TRUE, active |-> active, tasks |-> tasks, subtasks |-> subtasks]

\* bytes that load_workbook rejects
Unreadable ==
    [readable |-> FALSE, active |-> Sheet(<<>>, <<>>), tasks |-> <<>>,
     subtasks |-> <<>>]

\* "header_row = [str(cell.value).strip() if cell.value is not None else '' ...]"
header_row(first_row) ==
    [i \in DOMAIN first_row |->
        IF first_row[i].t = "none" THEN <<>> ELSE Strip(StrOf(first_row[i]))]

\* "header_map = {title.lower(): idx for idx, title in enumerate(header_row) if title}"
\* (a later column with the same lowered title replaces an earlier one)
header_map(first_row) ==
    LET titles == header_row(first_row)
        keys   == {Lower(titles[i]) : i \in {j \in DOMAIN titles : titles[j] # <<>>}}
    IN  [k \in keys |->
            CHOOSE i \in DOMAIN titles :
                /\ titles[i] # <<>> /\ Lower(titles[i]) = k
                /\ \A j \in DOMAIN titles :
                       (titles[j] # <<>> /\ Lower(titles[j]) = k) => j <= i]

\* col(key): the column of the key, 0 for None
col(hm, key) == IF key \in DOMAIN hm THEN hm[key] ELSE 0

\* normalize(value) without the lower()
normalize_cased(value) == IF value # <<>> THEN Strip(value) ELSE <<>>

\* the nested normalize(value) applied to a str
normalize(value) == IF value # <<>> THEN Lower(Strip(value)) ELSE <<>>

\* an import error: the sheet row it names (0 for the file) and its kind
RowError(row_index, msg) == [row |-> row_index, msg |-> msg]

\* _parse_bool; the key "da" renders the Cyrillic token of the source
TrueTokens ==
    {<<"1">>, <<"t", "r", "u", "e">>, <<"d", "a">>, <<"y">>, <<"y", "e", "s">>, <<"o", "u", "i">>, <<"o", "n">>}

\* _parse_bool without the lower()
parse_bool_cased(value) ==
    IF value.t = "bool" THEN value.n = 1
    ELSE IF value.t = "none" THEN FALSE
    ELSE Strip(StrOf(value)) \in TrueTokens

parse_bool(value) ==
    IF value.t = "bool" THEN value.n = 1
    ELSE IF value.t = "none" THEN FALSE
    ELSE Lower(Strip(StrOf(value))) \in TrueTokens

\* STATUS_ALIASES; the keys "ne nachat", "v rabote", "zavershen",
\* "zavershyon", "otmenen", "otmenyon" render the Cyrillic keys of the source
STATUS_ALIASES ==
    (<<"n", "e", " ", "n", "a", "c", "h", "a", "t">> :> "not_started") @@ (<<"n", "o", "t", " ", "s", "t", "a", "r", "t", "e", "d">> :> "not_started") @@
    (<<"v", " ", "r", "a", "b", "o", "t", "e">> :> "in_progress") @@ (<<"i", "n", " ", "p", "r", "o", "g", "r", "e", "s", "s">> :> "in_progress") @@
    (<<"d", "o", "n", "e">> :> "done") @@ (<<"z", "a", "v", "e", "r", "s", "h", "e", "n">> :> "done") @@
    (<<"z", "a", "v", "e", "r", "s", "h", "y", "o", "n">> :> "done") @@ (<<"o", "t", "m", "e", "n", "e", "n">> :> "cancelled") @@
    (<<"o", "t", "m", "e", "n", "y", "o", "n">> :> "cancelled") @@ (<<"c", "a", "n", "c", "e", "l", "l", "e", "d">> :> "cancelled")

\* StageStatus.__members__
StageStatusMembers ==
    (<<"N", "O", "T", "_", "S", "T", "A", "R", "T", "E", "D">> :> "not_started") @@ (<<"I", "N", "_", "P", "R", "O", "G", "R", "E", "S", "S">> :> "in_progress") @@
    (<<"D", "O", "N", "E">> :> "done") @@ (<<"C", "A", "N", "C", "E", "L", "L", "E", "D">> :> "cancelled")

\* TASK_STATUS_ALIASES; "delaetsya", "sdelano", "gotovo" render Cyrillic keys
TASK_STATUS_ALIASES ==
    (<<"t", "o", "d", "o">> :> "todo") @@ (<<"t", "o", " ", "d", "o">> :> "todo") @@
    (<<"v", " ", "r", "a", "b", "o", "t", "e">> :> "in_progress") @@ (<<"i", "n", " ", "p", "r", "o", "g", "r", "e", "s", "s">> :> "in_progress") @@
    (<<"d", "e", "l", "a", "e", "t", "s", "y", "a">> :> "in_progress") @@ (<<"d", "o", "n", "e">> :> "done") @@
    (<<"s", "d", "e", "l", "a", "n", "o">> :> "done") @@ (<<"g", "o", "t", "o", "v", "o">> :> "done")

\* TaskStatus.__members__
TaskStatusMembers ==
    (<<"T", "O", "D", "O">> :> "todo") @@ (<<"I", "N", "_", "P", "R", "O", "G", "R", "E", "S", "S">> :> "in_progress") @@
    (<<"D", "O", "N", "E">> :> "done")

\* URGENCY_ALIASES; "obychnaya", "normalnaya", "srochno", "vysokaya" render
\* Cyrillic keys
URGENCY_ALIASES ==
    (<<"n", "o", "r", "m", "a", "l">> :> "normal") @@ (<<"o", "b", "y", "c", "h", "n", "a", "y", "a">> :> "normal") @@
    (<<"n", "o", "r", "m", "a", "l", "n", "a", "y", "a">> :> "normal") @@ (<<"h", "i", "g", "h">> :> "high") @@
    (<<"s", "r", "o", "c", "h", "n", "o">> :> "high") @@ (<<"v", "y", "s", "o", "k", "a", "y", "a">> :> "high")

\* the stage status of a cell: "STATUS_ALIASES.get(normalized) or
\* StageStatus.__members__.get(normalized.upper())"; <<>> when neither knows it
StageStatusOf(status_raw) ==
    LET normalized == Lower(Strip(StrOf(status_raw)))
    IN  IF normalized \in DOMAIN STATUS_ALIASES THEN <<STATUS_ALIASES[normalized]>>
        ELSE IF Upper(normalized) \in DOMAIN StageStatusMembers
             THEN <<StageStatusMembers[Upper(normalized)]>>
             ELSE <<>>

\* the task status of a cell, TaskStatus.TODO when nothing knows it
TaskStatusOf(status_raw) ==
    IF ~Truthy(status_raw) THEN "todo"
    ELSE LET text == Strip(StrOf(status_raw))
         IN  IF Lower(text) \in DOMAIN TASK_STATUS_ALIASES
             THEN TASK_STATUS_ALIASES[Lower(text)]
             ELSE IF Upper(text) \in DOMAIN TaskStatusMembers
                  THEN TaskStatusMembers[Upper(text)]
                  ELSE "todo"

\* the urgency of a cell, TaskUrgency.NORMAL when nothing knows it
UrgencyOf(urgency_raw) ==
    IF ~Truthy(urgency_raw) THEN "normal"
    ELSE LET text == Lower(Strip(StrOf(urgency_raw)))
         IN  IF text \in DOMAIN URGENCY_ALIASES THEN URGENCY_ALIASES[text]
             ELSE "normal"
(***************************************************************************)
(* GTM models and the single-sheet GTM importer (exporters.py).             *)
(* Header keys are ASCII renderings of the source's Russian keys, listed    *)
(* in source order next to GtmHeaders.                                      *)
(***************************************************************************)
ChecklistItem(title, done, order) == [title |-> title, done |-> done, order |-> order]

GTMStage(id, title, description, order, status, risk_flag, checklist) ==
    [id |-> id, title |-> title, description |-> description, order |-> order,
     planned_start |-> NoneCell, planned_end |-> NoneCell, actual_end |-> NoneCell,
     status |-> status, risk_flag |-> risk_flag, checklist |-> checklist]

Subtask(title, done, order) == [title |-> title, done |-> done, order |-> order]

Comment(text) == [text |-> text]

Task(id, title, description, status, important, urgency, gtm_stage_id) ==
    [id |-> id, title |-> title, description |-> description, status |-> status,
     due_date |-> NoneCell, important |-> important, urgency |-> urgency,
     gtm_stage_id |-> gtm_stage_id, subtasks |-> <<>>, comments |-> <<>>]

\* pydantic's check of a "str | None" field
StrFieldOk(value) == value.t \in {"none", "str"}

\* pydantic's check of a "date | None" field on the cell values the uploads
\* hold (a text over Chars is no ISO date, a small nonzero number is a
\* timestamp within a day and no date)
DateFieldOk(value) == value.t \in {"none", "date"} \/ (value.t = "int" /\ value.n = 0)

\* the value pydantic stores in a "date | None" field it accepts: the
\* timestamp 0 is the first day of 1970
DateValue(value) == IF value.t = "int" THEN DateCell(1) ELSE value

RECURSIVE Split(_, _)
\* str.split(sep) for a one-character separator
Split(s, sep) ==
    IF \A i \in DOMAIN s : s[i] # sep THEN <<s>>
    ELSE LET i == CHOOSE a \in DOMAIN s :
                      s[a] = sep /\ \A b \in DOMAIN s : s[b] = sep => a <= b
         IN  <<SubSeq(s, 1, i - 1)>> \o Split(SubSeq(s, i + 1, Len(s)), sep)

\* the checklist of a stage cell: "[x] a; [ ] b; c"
ChecklistOf(checklist_raw) ==
    IF ~Truthy(checklist_raw) THEN <<>>
    ELSE LET parts == Split(StrOf(checklist_raw), ";")
             checklist_items ==
                 SelectSeq([i \in DOMAIN parts |-> Strip(parts[i])],
                           LAMBDA part : part # <<>>)
         IN  [idx \in DOMAIN checklist_items |->
                LET item == checklist_items[idx]
                IN  IF StartsWith(item, <<"[", "x", "]">>)
                    THEN ChecklistItem(Strip(SubSeq(item, 4, Len(item))), TRUE, idx - 1)
                    ELSE IF StartsWith(item, <<"[", " ", "]">>)
                         THEN ChecklistItem(Strip(SubSeq(item, 4, Len(item))), FALSE,
                                            idx - 1)
                         ELSE ChecklistItem(item, FALSE, idx - 1)]

\* the headers _write_gtm_sheet writes, in column order:
\*   Порядок этапа, Название этапа, Описание этапа, Плановая дата начала,
\*   Плановая дата окончания, Фактическая дата завершения, Статус этапа,
\*   Риск по этапу, Чек-лист, Порядок задачи, Название задачи,
\*   Описание задачи, Статус задачи, Срок задачи, Важная задача,
\*   Срочность задачи, Порядок подзадачи, Название подзадачи,
\*   Подзадача выполнена, Комментарий задачи, Дата комментария
GtmHeaders ==
    << <<"S", "t", "a", "g", "e", " ", "o", "r", "d", "e", "r">>, <<"S", "t", "a", "g", "e", " ", "t", "i", "t", "l", "e">>, <<"S", "t", "a", "g", "e", " ", "d", "e", "s", "c", "r", "i", "p", "t", "i", "o", "n">>,
       <<"P", "l", "a", "n", "n", "e", "d", " ", "s", "t", "a", "r", "t">>, <<"P", "l", "a", "n", "n", "e", "d", " ", "e", "n", "d">>, <<"A", "c", "t", "u", "a", "l", " ", "e", "n", "d">>,
       <<"S", "t", "a", "g", "e", " ", "s", "t", "a", "t", "u", "s">>, <<"S", "t", "a", "g", "e", " ", "r", "i", "s", "k">>, <<"C", "h", "e", "c", "k", "l", "i", "s", "t">>,
       <<"T", "a", "s", "k", " ", "o", "r", "d", "e", "r">>, <<"T", "a", "s", "k", " ", "t", "i", "t", "l", "e">>, <<"T", "a", "s", "k", " ", "d", "e", "s", "c", "r", "i", "p", "t", "i", "o", "n">>,
       <<"T", "a", "s", "k", " ", "s", "t", "a", "t", "u", "s">>, <<"T", "a", "s", "k", " ", "d", "u", "e">>, <<"T", "a", "s", "k", " ", "i", "m", "p", "o", "r", "t", "a", "n", "t">>,
       <<"T", "a", "s", "k", " ", "u", "r", "g", "e", "n", "c", "y">>, <<"S", "u", "b", "t", "a", "s", "k", " ", "o", "r", "d", "e", "r">>, <<"S", "u", "b", "t", "a", "s", "k", " ", "t", "i", "t", "l", "e">>,
       <<"S", "u", "b", "t", "a", "s", "k", " ", "d", "o", "n", "e">>, <<"T", "a", "s", "k", " ", "c", "o", "m", "m", "e", "n", "t">>, <<"C", "o", "m", "m", "e", "n", "t", " ", "d", "a", "t", "e">> >>

\* the key the importers look a GTM column up by: the lowered header
GtmKey(i) == Lower(GtmHeaders[i])

\* the state of the row loop of an importer: what it has built, the
\* exception that ended it and the next uuid4
GtmAcc(uuid) ==
    [stages |-> <<>>, tasks |-> <<>>, errors |-> <<>>,
     stage_index |-> <<>>, task_index |-> <<>>, subtasks |-> <<>>,
     exc |-> "none", uuid |-> uuid]

Raise(acc, exc) == [acc EXCEPT !.exc = exc]

\* the order of the stage with this id
StageOrderOf(stages, id) ==
    LET i == CHOOSE k \in DOMAIN stages : stages[k].id = id IN stages[i].order

\* "int(x) if x not in (None, '') else d" under "except (TypeError, ValueError): d"
IntOrDefault(value, d) ==
    IF PresentCell(value) /\ IntOk(value) THEN IntOf(value) ELSE d

\* _import_gtm_single_sheet, lines 484-529: the stage of a row whose title is
\* new.  The columns read as row[col(key)] raise TypeError when the sheet
\* lacks them; GTMStage(...) raises ValidationError on a bad field.
NewSingleSheetStage(acc, row, row_index, hm, stage_title_raw, stage_key) ==
    IF col(hm, GtmKey(1)) = 0 THEN Raise(acc, "TypeError")
    ELSE
    LET order_value == IntOrDefault(row[col(hm, GtmKey(1))], Len(acc.stages))
        status_cell == col(hm, GtmKey(7))
        status_raw  == IF status_cell # 0 THEN row[status_cell] ELSE NoneCell
        known       == IF Truthy(status_raw) THEN StageStatusOf(status_raw)
                       ELSE <<"not_started">>
        errors      == IF known = <<>>
                       THEN Append(acc.errors, RowError(row_index, "unknown status"))
                       ELSE acc.errors
        status_value == IF known = <<>> THEN "not_started" ELSE known[1]
        checklist_cell == col(hm, GtmKey(9))
        checklist_raw  == IF checklist_cell # 0 THEN row[checklist_cell] ELSE NoneCell
    IN  IF \E i \in 3..6 : col(hm, GtmKey(i)) = 0 THEN Raise(acc, "TypeError")
        ELSE
        LET description == row[col(hm, GtmKey(3))]
            risk_flag   == IF col(hm, GtmKey(8)) # 0
                           THEN parse_bool(row[col(hm, GtmKey(8))]) ELSE FALSE
            stage == [GTMStage(acc.uuid, Strip(StrOf(stage_title_raw)), description,
                               order_value, status_value, risk_flag,
                               ChecklistOf(checklist_raw))
                      EXCEPT !.planned_start = DateValue(row[col(hm, GtmKey(4))]),
                             !.planned_end = DateValue(row[col(hm, GtmKey(5))]),
                             !.actual_end = DateValue(row[col(hm, GtmKey(6))])]
        IN  IF ~StrFieldOk(description)
               \/ \E i \in 4..6 : ~DateFieldOk(row[col(hm, GtmKey(i))])
            THEN Raise(acc, "ValidationError")
            ELSE [acc EXCEPT !.stages = Append(@, stage),
                             !.errors = errors,
                             !.stage_index = (stage_key :> stage.id) @@ @,
                             !.uuid = @ + 1]

\* lines 573-589: the subtask and the comment a row adds to its task
SingleSheetSubtask(acc, row, hm, task_pos) ==
    IF col(hm, GtmKey(18)) = 0 THEN Raise(acc, "TypeError")
    ELSE
    LET sub_title == row[col(hm, GtmKey(18))]
        sub_order == IF col(hm, GtmKey(17)) # 0 /\ IntOk(row[col(hm, GtmKey(17))])
                     THEN IntOf(row[col(hm, GtmKey(17))]) ELSE 0
    IN  IF Truthy(sub_title) /\ col(hm, GtmKey(19)) = 0 THEN Raise(acc, "TypeError")
        ELSE IF col(hm, GtmKey(20)) = 0 THEN Raise(acc, "TypeError")
        ELSE
        LET subs == IF Truthy(sub_title)
                    THEN <<Subtask(Strip(StrOf(sub_title)),
                                   parse_bool(row[col(hm, GtmKey(19))]), sub_order)>>
                    ELSE <<>>
            comment_text == row[col(hm, GtmKey(20))]
            comments == IF Truthy(comment_text)
                        THEN <<Comment(Strip(StrOf(comment_text)))>> ELSE <<>>
        IN  [acc EXCEPT !.tasks[task_pos].subtasks = @ \o subs,
                        !.tasks[task_pos].comments = @ \o comments]

\* lines 531-571: the task of a row
SingleSheetTask(acc, row, hm, stage_id) ==
    IF col(hm, GtmKey(11)) = 0 \/ col(hm, GtmKey(10)) = 0 THEN Raise(acc, "TypeError")
    ELSE
    LET task_title_raw == row[col(hm, GtmKey(11))]
        task_order == IntOrDefault(row[col(hm, GtmKey(10))], 0)
        task_key   == <<stage_id, normalize(StrOf(task_title_raw)), task_order>>
    IN  IF ~Truthy(task_title_raw) THEN acc
        ELSE IF task_key \in DOMAIN acc.task_index
        THEN SingleSheetSubtask(acc, row, hm, acc.task_index[task_key])
        ELSE IF \E i \in {13, 16, 15, 12, 14} : col(hm, GtmKey(i)) = 0
        THEN Raise(acc, "TypeError")
        ELSE
        LET description   == row[col(hm, GtmKey(12))]
            important_raw == row[col(hm, GtmKey(15))]
            task_obj == [Task(acc.uuid, Strip(StrOf(task_title_raw)), description,
                              TaskStatusOf(row[col(hm, GtmKey(13))]),
                              IF important_raw.t # "none" THEN parse_bool(important_raw)
                              ELSE FALSE,
                              UrgencyOf(row[col(hm, GtmKey(16))]), stage_id)
                         EXCEPT !.due_date = DateValue(row[col(hm, GtmKey(14))])]
        IN  IF ~StrFieldOk(description) \/ ~DateFieldOk(row[col(hm, GtmKey(14))])
            THEN Raise(acc, "ValidationError")
            ELSE SingleSheetSubtask(
                     [acc EXCEPT !.tasks = Append(@, task_obj),
                                 !.task_index = (task_key :> (Len(acc.tasks) + 1)) @@ @,
                                 !.uuid = @ + 1],
                     row, hm, Len(acc.tasks) + 1)

\* lines 476-589: what the row loop of _import_gtm_single_sheet does with a
\* row it does not skip
SingleSheetFilledRow(acc, row, row_index, hm) ==
    IF col(hm, GtmKey(2)) = 0 THEN Raise(acc, "TypeError")
    ELSE
    LET stage_title_raw == row[col(hm, GtmKey(2))]
        stage_key == normalize(StrOf(stage_title_raw))
    IN  IF ~Truthy(stage_title_raw)
        THEN [acc EXCEPT !.errors = Append(@, RowError(row_index, "empty stage title"))]
        ELSE LET staged == IF stage_key \in DOMAIN acc.stage_index THEN acc
                           ELSE NewSingleSheetStage(acc, row, row_index, hm,
                                                    stage_title_raw, stage_key)
             IN  IF staged.exc # "none" THEN staged
                 ELSE SingleSheetTask(staged, row, hm, staged.stage_index[stage_key])

\* the row loop of _import_gtm_single_sheet without its skip of empty rows
SingleSheetRowUnskipped(acc, row, row_index, hm) ==
    SingleSheetFilledRow(acc, row, row_index, hm)

\* the body of the row loop of _import_gtm_single_sheet (lines 472-589)
SingleSheetRow(acc, row, row_index, hm) ==
    IF AllNone(row) THEN acc
    ELSE SingleSheetFilledRow(acc, row, row_index, hm)

RECURSIVE SingleSheetLoop(_, _, _, _)
SingleSheetLoop(acc, rows, row_index, hm) ==
    IF rows = <<>> \/ acc.exc # "none" THEN acc
    ELSE Only({ SingleSheetLoop(next, Tail(rows), row_index + 1, hm) :
                  next \in {SingleSheetRow(acc, Head(rows), row_index, hm)} })

\* the value an importer of GTM stages returns, or the exception it raises
GtmResult(stages, tasks, errors, exc, uuid) ==
    [stages |-> stages, tasks |-> tasks, errors |-> errors, exc |-> exc,
     uuid |-> uuid]

\* lines 592-599: the tasks in the order of (stage order, lowered title),
\* each with its subtasks in order
SingleSheetTasks(acc, stages) ==
    Only({ [i \in DOMAIN tasks |->
               [tasks[i] EXCEPT !.subtasks =
                   StableSort(@, OrderKeys(@))]] :
             tasks \in {StableSort(acc.tasks,
                           [i \in DOMAIN acc.tasks |->
                               <<StageOrderOf(stages, acc.tasks[i].gtm_stage_id)>>
                                   \o Codes(Lower(acc.tasks[i].title))])} })

\* lines 591-599: the sorts and the tuple _import_gtm_single_sheet returns
SingleSheetSorted(acc) ==
    Only({ GtmResult([i \in DOMAIN stages |->
                         [stages[i] EXCEPT !.checklist =
                             StableSort(@, OrderKeys(@))]],
                     SingleSheetTasks(acc, stages), acc.errors, "none", acc.uuid) :
             stages \in {StableSort(acc.stages, OrderKeys(acc.stages))} })

\* _import_gtm_single_sheet
import_gtm_single_sheet(sheet, hm, uuid) ==
    Only({ IF acc.exc # "none" THEN GtmResult(<<>>, <<>>, <<>>, acc.exc, acc.uuid)
           ELSE SingleSheetSorted(acc) :
             acc \in {SingleSheetLoop(GtmAcc(uuid), sheet.rows, 2, hm)} })

(***************************************************************************)
(* The legacy GTM importer: stages on the active sheet, tasks and subtasks  *)
(* on the sheets "Задачи" and "Подзадачи".                                  *)
(***************************************************************************)
\* the column keys of the legacy sheets that the single sheet does not use:
\*   порядок, статус, риск, описание, этап, срочность, важная, срок, выполнена
KeyOrder       == <<"o", "r", "d", "e", "r">>
KeyStatus      == <<"s", "t", "a", "t", "u", "s">>
KeyRisk        == <<"r", "i", "s", "k">>
KeyDescription == <<"d", "e", "s", "c", "r", "i", "p", "t", "i", "o", "n">>
KeyStage       == <<"s", "t", "a", "g", "e">>
KeyUrgency     == <<"u", "r", "g", "e", "n", "c", "y">>
KeyImportant   == <<"i", "m", "p", "o", "r", "t", "a", "n", "t">>
KeyDue         == <<"d", "u", "e">>
KeyDone        == <<"d", "o", "n", "e">>

\* the cell of a guarded column: "row[c] if c is not None else None"
Guarded(row, hm, key) == IF col(hm, key) # 0 THEN row[col(hm, key)] ELSE NoneCell

\* the body of the stage loop of _import_gtm_legacy (lines 617-676)
LegacyStageRow(acc, row, row_index, hm) ==
    IF AllNone(row) THEN acc
    ELSE IF col(hm, GtmKey(2)) = 0 THEN Raise(acc, "TypeError")
    ELSE
    LET title       == row[col(hm, GtmKey(2))]
        order_raw   == Guarded(row, hm, KeyOrder)
        status_raw  == Guarded(row, hm, KeyStatus)
        known       == IF Truthy(status_raw) THEN StageStatusOf(status_raw)
                       ELSE <<"not_started">>
        description == Guarded(row, hm, KeyDescription)
        stage == [GTMStage(acc.uuid, Strip(StrOf(title)), description,
                           IF order_raw.t # "none" THEN IntOf(order_raw)
                           ELSE Len(acc.stages),
                           known[1],
                           IF col(hm, KeyRisk) # 0 THEN parse_bool(row[col(hm, KeyRisk)])
                           ELSE FALSE,
                           ChecklistOf(Guarded(row, hm, GtmKey(9))))
                  EXCEPT !.planned_start = DateValue(Guarded(row, hm, GtmKey(4))),
                         !.planned_end = DateValue(Guarded(row, hm, GtmKey(5))),
                         !.actual_end = DateValue(Guarded(row, hm, GtmKey(6)))]
    IN  IF ~Truthy(title)
        THEN [acc EXCEPT !.errors = Append(@, RowError(row_index, "empty stage title"))]
        ELSE IF order_raw.t # "none" /\ ~IntOk(order_raw)
        THEN [acc EXCEPT !.errors = Append(@, RowError(row_index, "bad order"))]
        ELSE IF known = <<>>
        THEN [acc EXCEPT !.errors = Append(@, RowError(row_index, "unknown status"))]
        ELSE IF ~StrFieldOk(description)
                \/ \E i \in 4..6 : ~DateFieldOk(Guarded(row, hm, GtmKey(i)))
        THEN Raise(acc, "ValidationError")
        ELSE [acc EXCEPT !.stages = Append(@, stage), !.uuid = @ + 1]

\* the nested normalize(value) applied to a cell: a truthy value that is not
\* a str has no strip()
NormalizeRaises(value) == Truthy(value) /\ value.t # "str"
NormalizeCell(value) == IF Truthy(value) THEN Lower(Strip(value.s)) ELSE <<>>

\* the lookup that hands out a stage of its own when no stage has the key
LegacyStageIdOrFresh(stages, key) ==
    LET hits == {i \in DOMAIN stages : normalize(stages[i].title) = key}
    IN  IF hits = {} THEN 1
        ELSE stages[CHOOSE i \in hits : \A j \in hits : j <= i].id

\* "stage_index = {normalize(str(stage.title)): stage ...}": the id of the
\* last stage with this key, 0 when there is none
LegacyStageId(stages, key) ==
    LET hits == {i \in DOMAIN stages : normalize(stages[i].title) = key}
    IN  IF hits = {} THEN 0
        ELSE stages[CHOOSE i \in hits : \A j \in hits : j <= i].id

\* the body of the loop over the sheet "Задачи" (lines 699-748); tasks_raw
\* holds (task_order, stage id, task)
LegacyTaskRow(acc, row, row_index, hm, stages) ==
    IF AllNone(row) THEN acc
    ELSE IF col(hm, KeyStage) = 0 THEN Raise(acc, "TypeError")
    ELSE
    LET stage_title == row[col(hm, KeyStage)]
        stage_id    == LegacyStageId(stages, NormalizeCell(stage_title))
        order_value == Guarded(row, hm, GtmKey(10))
    IN  IF NormalizeRaises(stage_title) THEN Raise(acc, "AttributeError")
        ELSE IF stage_id = 0
        THEN [acc EXCEPT !.errors = Append(@, RowError(row_index, "task: stage not found"))]
        ELSE IF PresentCell(order_value) /\ ~IntOk(order_value)
        THEN [acc EXCEPT !.errors = Append(@, RowError(row_index, "task: bad task order"))]
        ELSE IF col(hm, GtmKey(11)) = 0 THEN Raise(acc, "TypeError")
        ELSE IF ~Truthy(row[col(hm, GtmKey(11))])
        THEN [acc EXCEPT !.errors = Append(@, RowError(row_index, "task: empty task title"))]
        ELSE IF \E k \in {KeyStatus, KeyUrgency, KeyImportant, KeyDescription, KeyDue} :
                    col(hm, k) = 0
        THEN Raise(acc, "TypeError")
        ELSE
        LET description   == row[col(hm, KeyDescription)]
            important_raw == row[col(hm, KeyImportant)]
            task_obj == [Task(acc.uuid, Strip(StrOf(row[col(hm, GtmKey(11))])),
                              description, TaskStatusOf(row[col(hm, KeyStatus)]),
                              IF important_raw.t # "none" THEN parse_bool(important_raw)
                              ELSE FALSE,
                              UrgencyOf(row[col(hm, KeyUrgency)]), stage_id)
                         EXCEPT !.due_date = DateValue(row[col(hm, KeyDue)])]
        IN  IF ~StrFieldOk(description) \/ ~DateFieldOk(row[col(hm, KeyDue)])
            THEN Raise(acc, "ValidationError")
            ELSE [acc EXCEPT
                     !.tasks = Append(@, [task_order |-> IntOrDefault(order_value, 0),
                                          stage_id |-> stage_id, task |-> task_obj]),
                     !.uuid = @ + 1]

\* the body of the loop over the sheet "Подзадачи" (lines 766-799); the
\* subtasks are kept in sheet order with the key of subtasks_map
LegacySubtaskRow(acc, row, row_index, hm, stages) ==
    IF AllNone(row) THEN acc
    ELSE IF col(hm, KeyStage) = 0 THEN Raise(acc, "TypeError")
    ELSE
    LET stage_title == row[col(hm, KeyStage)]
        stage_id    == LegacyStageId(stages, NormalizeCell(stage_title))
    IN  IF NormalizeRaises(stage_title) THEN Raise(acc, "AttributeError")
        ELSE IF stage_id = 0
        THEN [acc EXCEPT !.errors = Append(@, RowError(row_index, "subtask: stage not found"))]
        ELSE IF col(hm, GtmKey(10)) = 0 THEN Raise(acc, "TypeError")
        ELSE IF PresentCell(row[col(hm, GtmKey(10))]) /\ ~IntOk(row[col(hm, GtmKey(10))])
        THEN [acc EXCEPT !.errors = Append(@, RowError(row_index, "subtask: bad task order"))]
        ELSE IF col(hm, GtmKey(18)) = 0 THEN Raise(acc, "TypeError")
        ELSE IF ~Truthy(row[col(hm, GtmKey(18))])
        THEN [acc EXCEPT !.errors = Append(@, RowError(row_index, "subtask: empty title"))]
        ELSE IF col(hm, KeyDone) = 0 \/ col(hm, GtmKey(17)) = 0
        THEN Raise(acc, "TypeError")
        ELSE [acc EXCEPT !.subtasks = Append(@,
                 [stage_id |-> stage_id,
                  task_order |-> IntOrDefault(row[col(hm, GtmKey(10))], 0),
                  subtask |-> Subtask(Strip(StrOf(row[col(hm, GtmKey(18))])),
                                      parse_bool(row[col(hm, KeyDone)]),
                                      IntOrDefault(row[col(hm, GtmKey(17))], 0))])]

RECURSIVE LegacyStageLoop(_, _, _, _)
LegacyStageLoop(acc, rows, row_index, hm) ==
    IF rows = <<>> \/ acc.exc # "none" THEN acc
    ELSE Only({ LegacyStageLoop(next, Tail(rows), row_index + 1, hm) :
                  next \in {LegacyStageRow(acc, Head(rows), row_index, hm)} })

RECURSIVE LegacyTaskLoop(_, _, _, _, _)
LegacyTaskLoop(acc, rows, row_index, hm, stages) ==
    IF rows = <<>> \/ acc.exc # "none" THEN acc
    ELSE Only({ LegacyTaskLoop(next, Tail(rows), row_index + 1, hm, stages) :
                  next \in {LegacyTaskRow(acc, Head(rows), row_index, hm, stages)} })

RECURSIVE LegacySubtaskLoop(_, _, _, _, _)
LegacySubtaskLoop(acc, rows, row_index, hm, stages) ==
    IF rows = <<>> \/ acc.exc # "none" THEN acc
    ELSE Only({ LegacySubtaskLoop(next, Tail(rows), row_index + 1, hm, stages) :
                  next \in {LegacySubtaskRow(acc, Head(rows), row_index, hm, stages)} })

\* the position of the stage with this id: stage_order_map[id]
StagePosOf(stages, id) == CHOOSE k \in DOMAIN stages : stages[k].id = id

\* lines 802-803: the subtasks of one raw task, in their order
LegacySubsOf(subtasks, t) ==
    Only({ StableSort([i \in DOMAIN mine |-> mine[i].subtask],
                      [i \in DOMAIN mine |-> <<mine[i].subtask.order>>]) :
             mine \in {SelectSeq(subtasks,
                                 LAMBDA s : s.stage_id = t.stage_id
                                            /\ s.task_order = t.task_order)} })

\* lines 802-809: the tasks in the order of (stage position, task order),
\* each with its subtasks, and the tuple _import_gtm_legacy returns
LegacyAssembled(stages, tasked, subbed) ==
    Only({ GtmResult(stages,
                     [i \in DOMAIN tasks_raw |->
                         [tasks_raw[i].task EXCEPT
                             !.subtasks = LegacySubsOf(subbed.subtasks, tasks_raw[i])]],
                     subbed.errors, "none", subbed.uuid) :
             tasks_raw \in {StableSort(tasked.tasks,
                               [i \in DOMAIN tasked.tasks |->
                                   <<StagePosOf(stages, tasked.tasks[i].stage_id),
                                     tasked.tasks[i].task_order>>])} })

\* lines 750-799: the "subtasks" sheet, when the workbook has one
LegacyWithSubtasks(workbook, stages, tasked) ==
    Only({ IF subbed.exc # "none"
           THEN GtmResult(<<>>, <<>>, <<>>, subbed.exc, subbed.uuid)
           ELSE LegacyAssembled(stages, tasked, subbed) :
             subbed \in {IF workbook.subtasks = <<>> THEN tasked
                         ELSE LegacySubtaskLoop(tasked, workbook.subtasks[1].rows, 2,
                                                header_map(workbook.subtasks[1].header),
                                                stages)} })

\* lines 683-748: the "tasks" sheet, when the workbook has one
LegacyWithTasks(workbook, stages, staged) ==
    Only({ LegacyWithSubtasks(workbook, stages, tasked) :
             tasked \in {IF workbook.tasks = <<>> THEN staged
                         ELSE LegacyTaskLoop(staged, workbook.tasks[1].rows, 2,
                                             header_map(workbook.tasks[1].header),
                                             stages)} })

\* lines 678-680: the stages in order, which the task sheets refer to
LegacyWithStages(workbook, staged) ==
    Only({ LegacyWithTasks(workbook, stages, staged) :
             stages \in {StableSort(staged.stages, OrderKeys(staged.stages))} })

\* _import_gtm_legacy
import_gtm_legacy(workbook, hm, uuid) ==
    Only({ LegacyWithStages(workbook, staged) :
             staged \in {LegacyStageLoop(GtmAcc(uuid), workbook.active.rows, 2, hm)} })

\* import_gtm_stages_from_sheet without its check of the required column
GtmFromHeaderUnchecked(sheet, workbook, uuid, hm) ==
    IF {GtmKey(11), GtmKey(18), GtmKey(20)} \cap DOMAIN hm # {}
    THEN import_gtm_single_sheet(sheet, hm, uuid)
    ELSE import_gtm_legacy(workbook, hm, uuid)

\* import_gtm_stages_from_sheet from line 425 on: the required column and
\* the choice between the two layouts
GtmFromHeader(sheet, workbook, uuid, hm) ==
    IF GtmKey(2) \notin DOMAIN hm
    THEN GtmResult(<<>>, <<>>, <<RowError(0, "missing columns")>>, "none", uuid)
    ELSE IF {GtmKey(11), GtmKey(18), GtmKey(20)} \cap DOMAIN hm # {}
    THEN import_gtm_single_sheet(sheet, hm, uuid)
    ELSE import_gtm_legacy(workbook, hm, uuid)

\* import_gtm_stages_from_sheet(sheet); workbook is sheet.parent
import_gtm_stages_from_sheet(sheet, workbook, uuid) ==
    IF sheet.header = <<>>
    THEN GtmResult(<<>>, <<>>, <<RowError(0, "empty file")>>, "none", uuid)
    ELSE Only({ GtmFromHeader(sheet, workbook, uuid, hm) :
                  hm \in {header_map(sheet.header)} })

\* import_gtm_stages_from_excel(content)
import_gtm_stages_from_excel(content, uuid) ==
    IF ~content.readable
    THEN GtmResult(<<>>, <<>>, <<RowError(0, "unreadable file")>>, "none", uuid)
    ELSE import_gtm_stages_from_sheet(content.active, content, uuid)

(***************************************************************************)
(* Characteristics import (exporters.py).                                   *)
(***************************************************************************)
CharacteristicField(id, label_ru, label_en, field_type, order) ==
    [id |-> id, label_ru |-> label_ru, label_en |-> label_en,
     value_ru |-> NoneCell, value_en |-> NoneCell, field_type |-> field_type,
     order |-> order]

CharacteristicSection(id, title, order, fields) ==
    [id |-> id, title |-> title, order |-> order, fields |-> fields]

\* the headers _write_characteristics_sheet writes, in column order:
\*   Секция, Порядок секции, Label RU, Label EN, Value RU, Value EN,
\*   Тип поля, Порядок поля
CharHeaders ==
    << <<"S", "e", "c", "t", "i", "o", "n">>, <<"S", "e", "c", "t", "i", "o", "n", " ", "o", "r", "d", "e", "r">>, <<"L", "a", "b", "e", "l", " ", "R", "U">>, <<"L", "a", "b", "e", "l", " ", "E", "N">>,
       <<"V", "a", "l", "u", "e", " ", "R", "U">>, <<"V", "a", "l", "u", "e", " ", "E", "N">>, <<"F", "i", "e", "l", "d", " ", "t", "y", "p", "e">>, <<"F", "i", "e", "l", "d", " ", "o", "r", "d", "e", "r">> >>

CharKey(i) == Lower(CharHeaders[i])

\* FIELD_TYPE_ALIASES; "tekst", "chislo", "spisok", "flazhok", "galochka",
\* "drugoe" render the Cyrillic keys of the source
FIELD_TYPE_ALIASES ==
    (<<"t", "e", "x", "t">> :> "text") @@ (<<"t", "e", "k", "s", "t">> :> "text") @@
    (<<"n", "u", "m", "b", "e", "r">> :> "number") @@ (<<"c", "h", "i", "s", "l", "o">> :> "number") @@
    (<<"s", "e", "l", "e", "c", "t">> :> "select") @@ (<<"l", "i", "s", "t">> :> "select") @@
    (<<"s", "p", "i", "s", "o", "k">> :> "select") @@ (<<"c", "h", "e", "c", "k", "b", "o", "x">> :> "checkbox") @@
    (<<"f", "l", "a", "z", "h", "o", "k">> :> "checkbox") @@ (<<"g", "a", "l", "o", "c", "h", "k", "a">> :> "checkbox") @@
    (<<"o", "t", "h", "e", "r">> :> "other") @@ (<<"d", "r", "u", "g", "o", "e">> :> "other")

\* the nested parse_field_type(raw, fallback)
parse_field_type(raw, fallback) ==
    IF raw.t = "none" THEN fallback
    ELSE LET normalized == normalize(StrOf(raw))
         IN  IF normalized \in DOMAIN FIELD_TYPE_ALIASES
             THEN FIELD_TYPE_ALIASES[normalized] ELSE fallback

\* _coerce_value(raw, field_type); float(text) succeeds on the model's texts
\* exactly when the stripped text is a run of digits
coerce_value(raw, field_type) ==
    IF raw.t = "none" THEN NoneCell
    ELSE IF field_type = "checkbox" THEN BoolCell(parse_bool(raw))
    ELSE IF field_type = "number" /\ raw.t = "str" /\ IntParses(raw.s)
         THEN IntCell(IntOfStr(raw.s))
    ELSE raw

\* "label_ru or label_en or ''"
FirstTruthy(a, b) == IF Truthy(a) THEN a ELSE IF Truthy(b) THEN b ELSE StrCell(<<>>)

\* the position of the first field of the section whose labels normalize to
\* the pair, 0 when there is none
MatchingField(fields, normalized_ru, normalized_en) ==
    LET hits == {i \in DOMAIN fields :
                    /\ normalize(fields[i].label_ru) = normalized_ru
                    /\ normalize(fields[i].label_en) = normalized_en}
    IN  IF hits = {} THEN 0 ELSE CHOOSE i \in hits : \A j \in hits : i <= j

CharReport ==
    [sections_created |-> 0, fields_created |-> 0, fields_updated |-> 0,
     rows_skipped |-> 0]

\* the state of the row loop of import_characteristics_from_sheet
CharAcc(sections_copy, uuid) ==
    [sections |-> sections_copy, errors |-> <<>>, report |-> CharReport,
     max_section_order |->
         SeqMax([i \in DOMAIN sections_copy |-> sections_copy[i].order], -1),
     exc |-> "none", uuid |-> uuid]

\* "section_index.get(normalized_section)": the position of the section the
\* key resolves to (the last section with that key), 0 when there is none
SectionPos(sections, key) ==
    LET hits == {i \in DOMAIN sections : normalize(sections[i].title) = key}
    IN  IF hits = {} THEN 0 ELSE CHOOSE i \in hits : \A j \in hits : j <= i

\* the body of the row loop of import_characteristics_from_sheet
\* (lines 1314-1383)
CharRow(acc, row, row_index, hm) ==
    IF AllNone(row) THEN acc
    ELSE
    LET section_title == row[col(hm, CharKey(1))]
        label_ru == row[col(hm, CharKey(3))]
        label_en == row[col(hm, CharKey(4))]
        normalized_section == normalize(StrOf(section_title))
        found  == SectionPos(acc.sections, normalized_section)
        max_section_order == IF found = 0 THEN acc.max_section_order + 1
                             ELSE acc.max_section_order
        section_order == IntOrDefault(Guarded(row, hm, CharKey(2)), max_section_order)
        sections == IF found = 0
                    THEN Append(acc.sections,
                                CharacteristicSection(acc.uuid, StrOf(section_title),
                                                      section_order, <<>>))
                    ELSE acc.sections
        uuid1  == IF found = 0 THEN acc.uuid + 1 ELSE acc.uuid
        pos    == IF found = 0 THEN Len(sections) ELSE found
        fields == sections[pos].fields
        max_field_order == SeqMax([i \in DOMAIN fields |-> fields[i].order], -1)
        fpos   == MatchingField(fields,
                                normalize(FirstTruthy(label_ru, StrCell(<<>>)).s),
                                normalize(FirstTruthy(label_en, StrCell(<<>>)).s))
        type_raw == row[col(hm, CharKey(7))]
        field  == IF fpos = 0
                  THEN CharacteristicField(
                           uuid1, StrOf(FirstTruthy(label_ru, label_en)),
                           StrOf(FirstTruthy(label_en, label_ru)),
                           parse_field_type(type_raw, "text"),
                           IntOrDefault(Guarded(row, hm, CharKey(8)),
                                        max_field_order + 1))
                  ELSE [fields[fpos] EXCEPT
                           !.field_type = parse_field_type(type_raw, @)]
        valued == [field EXCEPT
                      !.value_ru = coerce_value(row[col(hm, CharKey(5))], field.field_type),
                      !.value_en = coerce_value(row[col(hm, CharKey(6))], field.field_type)]
    IN  IF ~Truthy(section_title)
        THEN [acc EXCEPT !.errors = Append(@, RowError(row_index, "no section title")),
                         !.report.rows_skipped = @ + 1]
        ELSE IF ~Truthy(label_ru) /\ ~Truthy(label_en)
        THEN [acc EXCEPT !.errors = Append(@, RowError(row_index, "no labels")),
                         !.report.rows_skipped = @ + 1]
        ELSE IF NormalizeRaises(label_ru) \/ NormalizeRaises(label_en)
        THEN Raise(acc, "AttributeError")
        ELSE [acc EXCEPT
                 !.sections = [sections EXCEPT ![pos].fields =
                                  IF fpos = 0 THEN Append(fields, valued)
                                  ELSE [fields EXCEPT ![fpos] = valued]],
                 !.max_section_order = max_section_order,
                 !.uuid = IF fpos = 0 THEN uuid1 + 1 ELSE uuid1,
                 !.report.sections_created = IF found = 0 THEN @ + 1 ELSE @,
                 !.report.fields_created = IF fpos = 0 THEN @ + 1 ELSE @,
                 !.report.fields_updated = IF fpos = 0 THEN @ ELSE @ + 1]

RECURSIVE CharLoop(_, _, _, _)
CharLoop(acc, rows, row_index, hm) ==
    IF rows = <<>> \/ acc.exc # "none" THEN acc
    ELSE Only({ CharLoop(next, Tail(rows), row_index + 1, hm) :
                  next \in {CharRow(acc, Head(rows), row_index, hm)} })

\* what an importer of characteristics returns: a tuple of arity elements
\* (sections, errors[, report]) or the exception it raises
CharResult(arity, sections, errors, report, exc, uuid) ==
    [arity |-> arity, sections |-> sections, errors |-> errors,
     report |-> report, exc |-> exc, uuid |-> uuid]

\* lines 1385-1389: the sorts and the 3-tuple import_characteristics_from_sheet
\* returns after the row loop
CharSorted(acc) ==
    Only({ CharResult(3,
                      [i \in DOMAIN sorted |->
                          [sorted[i] EXCEPT !.fields =
                              StableSort(@, OrderKeys(@))]],
                      acc.errors, acc.report, "none", acc.uuid) :
             sorted \in {StableSort(acc.sections, OrderKeys(acc.sections))} })

\* import_characteristics_from_sheet from line 1278 on: line 1293 calls the
\* nested normalize before its def statement has run, once for every
\* section the project already has
CharFromHeader(sheet, project, uuid, hm) ==
    IF ~({CharKey(1)} \cup {CharKey(i) : i \in 3..7} \subseteq DOMAIN hm)
    THEN CharResult(2, <<>>, <<RowError(0, "missing columns")>>, CharReport,
                    "none", uuid)
    ELSE IF project.characteristics # <<>>
    THEN CharResult(0, <<>>, <<>>, CharReport, "NameError", uuid)
    ELSE Only({ IF acc.exc # "none"
                THEN CharResult(0, <<>>, <<>>, CharReport, acc.exc, acc.uuid)
                ELSE CharSorted(acc) :
                  acc \in {CharLoop(CharAcc(project.characteristics, uuid),
                                    sheet.rows, 2, hm)} })

\* import_characteristics_from_sheet(sheet, project)
import_characteristics_from_sheet(sheet, project, uuid) ==
    IF sheet.header = <<>>
    THEN CharResult(2, <<>>, <<RowError(0, "empty file")>>, CharReport, "none", uuid)
    ELSE Only({ CharFromHeader(sheet, project, uuid, hm) :
                  hm \in {header_map(sheet.header)} })

\* exporters.import_characteristics_from_excel(content, project)
import_characteristics_from_excel(content, project, uuid) ==
    IF ~content.readable
    THEN CharResult(2, <<>>, <<RowError(0, "unreadable file")>>, CharReport, "none", uuid)
    ELSE import_characteristics_from_sheet(content.active, project, uuid)

\* what LocalRepository.import_characteristics_from_excel leaves behind: the
\* store, the tuple it returns or the exception it raises, whether save()
\* ran, and what the parser returned to it
RepoImported(st, sections, errors, exc, saved, parsed) ==
    [store |-> st, sections |-> sections, errors |-> errors,
     report |-> parsed.report, exc |-> exc, saved |-> saved, uuid |-> parsed.uuid,
     parsed |-> parsed]

\* the method with "if errors: return [], errors, report" left out
repo_commit_regardless(st, p_idx, parsed) ==
    IF parsed.exc # "none" THEN RepoImported(st, <<>>, <<>>, parsed.exc, FALSE, parsed)
    ELSE IF parsed.arity # 3
    THEN RepoImported(st, <<>>, <<>>, "ValueError", FALSE, parsed)
    ELSE RepoImported([st EXCEPT !.projects[p_idx].characteristics = parsed.sections],
                      parsed.sections, <<>>, "none", TRUE, parsed)

\* LocalRepository.import_characteristics_from_excel from line 896 on:
\* "sections, errors, report = parse(...)" raises ValueError on a 2-tuple
repo_commit_characteristics(st, p_idx, parsed) ==
    IF parsed.exc # "none" THEN RepoImported(st, <<>>, <<>>, parsed.exc, FALSE, parsed)
    ELSE IF parsed.arity # 3
    THEN RepoImported(st, <<>>, <<>>, "ValueError", FALSE, parsed)
    ELSE IF parsed.errors # <<>>
    THEN RepoImported(st, <<>>, parsed.errors, "none", FALSE, parsed)
    ELSE RepoImported([st EXCEPT !.projects[p_idx].characteristics = parsed.sections],
                      parsed.sections, <<>>, "none", TRUE, parsed)

\* LocalRepository._get_project_with_index and
\* LocalRepository.import_characteristics_from_excel(project_id, content)
repo_import_characteristics_from_excel(st, project_id, content, uuid) ==
    IF FirstIndex(st.projects, project_id) = 0
    THEN RepoImported(st, <<>>, <<>>, "KeyError", FALSE,
                      CharResult(0, <<>>, <<>>, CharReport, "none", uuid))
    ELSE Only({ repo_commit_characteristics(st, FirstIndex(st.projects, project_id),
                                            parsed) :
                  parsed \in {import_characteristics_from_excel(
                                  content,
                                  st.projects[FirstIndex(st.projects, project_id)],
                                  uuid)} })

\* LocalRepository.replace_gtm_stages(project_id, stages)
replace_gtm_stages(st, project_id, stages) ==
    IF FirstIndex(st.projects, project_id) = 0 THEN Ret(st, "KeyError", FALSE)
    ELSE Ret([st EXCEPT !.projects[FirstIndex(st.projects, project_id)].gtm_stages
                            = stages],
             "none", TRUE)

(***************************************************************************)
(* Project list import (exporters.py).                                      *)
(***************************************************************************)
\* the fixed headers export_projects_to_excel writes, in column order:
\*   ID, Короткий ID, Название проекта, Продуктовая группа, Бренд,
\*   Рынок/регион, Статус, Плановая дата запуска, Фактическая дата запуска,
\*   Текущий GTM-этап, Приоритет, MOQ, FOB, PROMO, RRP, Краткое описание,
\*   Полное описание
ProjectHeaders ==
    << <<"I", "D">>, <<"S", "h", "o", "r", "t", " ", "I", "D">>, <<"P", "r", "o", "j", "e", "c", "t", " ", "n", "a", "m", "e">>, <<"P", "r", "o", "d", "u", "c", "t", " ", "g", "r", "o", "u", "p">>, <<"B", "r", "a", "n", "d">>,
       <<"M", "a", "r", "k", "e", "t">>, <<"S", "t", "a", "t", "u", "s">>, <<"P", "l", "a", "n", "n", "e", "d", " ", "l", "a", "u", "n", "c", "h">>, <<"A", "c", "t", "u", "a", "l", " ", "l", "a", "u", "n", "c", "h">>,
       <<"C", "u", "r", "r", "e", "n", "t", " ", "G", "T", "M", " ", "s", "t", "a", "g", "e">>, <<"P", "r", "i", "o", "r", "i", "t", "y">>, <<"M", "O", "Q">>, <<"F", "O", "B">>, <<"P", "R", "O", "M", "O">>,
       <<"R", "R", "P">>, <<"S", "h", "o", "r", "t", " ", "d", "e", "s", "c", "r", "i", "p", "t", "i", "o", "n">>, <<"F", "u", "l", "l", " ", "d", "e", "s", "c", "r", "i", "p", "t", "i", "o", "n">> >>

ProjectKey(i) == Lower(ProjectHeaders[i])

CUSTOM_FIELD_PREFIX == <<"C", "F", ":">>

\* PROJECT_STATUS_ALIASES; "v rabote", "aktivnyi", "zapushchen", "zakrytyi",
\* "arkhiv", "arkhivnyi" render the Cyrillic keys of the source
PROJECT_STATUS_ALIASES ==
    (<<"v", " ", "r", "a", "b", "o", "t", "e">> :> "in_progress") @@ (<<"i", "n", " ", "p", "r", "o", "g", "r", "e", "s", "s">> :> "in_progress") @@
    (<<"a", "k", "t", "i", "v", "n", "y", "i">> :> "in_progress") @@ (<<"z", "a", "p", "u", "s", "h", "c", "h", "e", "n">> :> "launched") @@
    (<<"l", "a", "u", "n", "c", "h", "e", "d">> :> "launched") @@ (<<"z", "a", "k", "r", "y", "t", "y", "i">> :> "closed") @@
    (<<"c", "l", "o", "s", "e", "d">> :> "closed") @@ (<<"e", "o", "l">> :> "eol") @@
    (<<"a", "r", "k", "h", "i", "v">> :> "archived") @@ (<<"a", "r", "k", "h", "i", "v", "n", "y", "i">> :> "archived") @@
    (<<"a", "r", "c", "h", "i", "v", "e", "d">> :> "archived")

\* ProjectStatus.__members__ as exporters.py and storage.py use the enum
ProjectStatusMembers ==
    (<<"I", "N", "_", "P", "R", "O", "G", "R", "E", "S", "S">> :> "in_progress") @@ (<<"L", "A", "U", "N", "C", "H", "E", "D">> :> "launched") @@
    (<<"C", "L", "O", "S", "E", "D">> :> "closed") @@ (<<"E", "O", "L">> :> "eol") @@ (<<"A", "R", "C", "H", "I", "V", "E", "D">> :> "archived")

\* the nested parse_status(raw)
parse_status(raw) ==
    IF raw.t = "none" THEN "in_progress"
    ELSE LET normalized == Lower(Strip(StrOf(raw)))
         IN  IF normalized \in DOMAIN PROJECT_STATUS_ALIASES
             THEN PROJECT_STATUS_ALIASES[normalized]
             ELSE IF Upper(normalized) \in DOMAIN ProjectStatusMembers
                  THEN ProjectStatusMembers[Upper(normalized)]
                  ELSE "in_progress"

\* group_by_name.get(...) that falls back to the last group
GroupByNameOrLast(groups, group_name) ==
    LET key  == Lower(Strip(StrOf(group_name)))
        hits == {i \in DOMAIN groups : Lower(Strip(groups[i].name)) = key}
    IN  IF ~Truthy(group_name) \/ hits = {} THEN Len(groups)
        ELSE CHOOSE i \in hits : \A j \in hits : j <= i

\* "group_by_name.get(str(group_name).strip().lower()) if group_name else
\* None": the position of the last group with that key, 0 for None
GroupByName(groups, group_name) ==
    LET key  == Lower(Strip(StrOf(group_name)))
        hits == {i \in DOMAIN groups : Lower(Strip(groups[i].name)) = key}
    IN  IF ~Truthy(group_name) \/ hits = {} THEN 0
        ELSE CHOOSE i \in hits : \A j \in hits : j <= i

\* "existing_by_id.get(project_id) if project_id else None": the position of
\* the last existing project whose str(id) is the text, 0 for None
ExistingById(existing_projects, project_id_val) ==
    LET project_id == Strip(StrOf(project_id_val))
        hits == {i \in DOMAIN existing_projects :
                    StrOfInt(existing_projects[i].id) = project_id}
    IN  IF ~Truthy(project_id_val) \/ project_id = <<>> \/ hits = {} THEN 0
        ELSE CHOOSE i \in hits : \A j \in hits : j <= i

\* the id of the first stage of the existing project with this title, 0 for None
MatchedStageId(stages, current_stage_title) ==
    LET key  == Lower(Strip(StrOf(current_stage_title)))
        hits == {i \in DOMAIN stages : Lower(Strip(stages[i].title)) = key}
    IN  IF hits = {} THEN 0
        ELSE stages[CHOOSE i \in hits : \A j \in hits : i <= j].id

\* base_kwargs["custom_fields"]: for every header key with the prefix, the
\* suffix of the title that key stands for and the row's cell in its column
CustomFieldsOf(row, first_row, hm) ==
    LET titles == header_row(first_row)
        cols   == {hm[k] : k \in {x \in DOMAIN hm :
                                     StartsWith(x, Lower(CUSTOM_FIELD_PREFIX))}}
        filled == {c \in cols : PresentCell(row[c])}
        KeyOf(c) == SubSeq(titles[c], Len(CUSTOM_FIELD_PREFIX) + 1, Len(titles[c]))
    IN  [k \in {KeyOf(c) : c \in filled} |->
            row[CHOOSE c \in filled : KeyOf(c) = k]]

\* the state of the row loop of import_projects_from_excel
ProjectsAcc(uuid) == [parsed |-> <<>>, errors |-> <<>>, exc |-> "none", uuid |-> uuid]

\* the body of the row loop of import_projects_from_excel (lines 906-984)
ProjectRow(acc, row, row_index, first_row, hm, groups, existing_projects) ==
    IF AllNone(row) THEN acc
    ELSE
    LET name  == row[col(hm, ProjectKey(3))]
        group == GroupByName(groups, row[col(hm, ProjectKey(4))])
        status == parse_status(row[col(hm, ProjectKey(7))])
        project_id_val == Guarded(row, hm, ProjectKey(1))
        project_id == Strip(StrOf(project_id_val))
        existing == ExistingById(existing_projects, project_id_val)
        brand_raw == row[col(hm, ProjectKey(5))]
        brand == IF brand_raw.t # "none" THEN StrOf(brand_raw) ELSE <<>>
        market == row[col(hm, ProjectKey(6))]
        current_stage_title == Guarded(row, hm, ProjectKey(10))
        current_gtm_stage_id ==
            IF existing # 0 /\ Truthy(current_stage_title)
            THEN MatchedStageId(existing_projects[existing].gtm_stages,
                                current_stage_title)
            ELSE 0
        custom_fields == CustomFieldsOf(row, first_row, hm)
        short_id_val == row[col(hm, ProjectKey(2))]
        Money(i) == coerce_value(Guarded(row, hm, ProjectKey(i)), "number")
        updated ==
            [existing_projects[existing] EXCEPT
                !.group_id = groups[group].id, !.name = StrOf(name),
                !.brand = brand, !.market = market, !.status = status,
                !.current_gtm_stage_id = current_gtm_stage_id,
                !.custom_fields = custom_fields,
                !.short_id = IF Truthy(short_id_val) /\ IntOk(short_id_val)
                             THEN <<IntOf(short_id_val)>> ELSE @]
        has_id == Truthy(project_id_val) /\ project_id # <<>>
        created ==
            [Project(IF has_id THEN IntOfStr(project_id) ELSE acc.uuid,
                     IF short_id_val.t \in {"int", "bool"}
                     THEN <<IntOf(short_id_val)>> ELSE <<>>,
                     groups[group].id, StrOf(name))
             EXCEPT !.brand = brand, !.market = market, !.status = status,
                    !.custom_fields = custom_fields]
    IN  IF ~Truthy(name)
        THEN [acc EXCEPT !.errors = Append(@, RowError(row_index, "no project name"))]
        ELSE IF group = 0
        THEN [acc EXCEPT !.errors = Append(@, RowError(row_index, "group not found"))]
        ELSE IF \E i \in {6, 8, 9, 11, 16, 17, 2} : col(hm, ProjectKey(i)) = 0
        THEN Raise(acc, "TypeError")
        ELSE IF existing # 0
        THEN [acc EXCEPT !.parsed = Append(@, updated)]
        ELSE IF has_id /\ ~IntParses(project_id) THEN Raise(acc, "ValueError")
        ELSE IF \/ market.t # "str"
                \/ ~StrFieldOk(row[col(hm, ProjectKey(16))])
                \/ ~StrFieldOk(row[col(hm, ProjectKey(17))])
                \/ \E i \in 12..15 : Money(i).t = "str"
        THEN Raise(acc, "ValidationError")
        ELSE [acc EXCEPT !.parsed = Append(@, created),
                         !.uuid = IF has_id THEN @ ELSE @ + 1]

RECURSIVE ProjectLoop(_, _, _, _, _, _, _)
ProjectLoop(acc, rows, row_index, first_row, hm, groups, existing_projects) ==
    IF rows = <<>> \/ acc.exc # "none" THEN acc
    ELSE Only({ ProjectLoop(next, Tail(rows), row_index + 1, first_row, hm,
                            groups, existing_projects) :
                  next \in {ProjectRow(acc, Head(rows), row_index, first_row, hm,
                                       groups, existing_projects)} })

\* what import_projects_from_excel returns, or the exception it raises
ProjectsResult(projects, errors, exc, uuid) ==
    [projects |-> projects, errors |-> errors, exc |-> exc, uuid |-> uuid]

\* import_projects_from_excel from line 858 on: the required columns and the
\* row loop
ProjectsFromHeader(content, groups, existing_projects, uuid, hm) ==
    IF ~({ProjectKey(3), ProjectKey(4), ProjectKey(5), ProjectKey(7)}
            \subseteq DOMAIN hm)
    THEN ProjectsResult(<<>>, <<RowError(0, "missing columns")>>, "none", uuid)
    ELSE Only({ IF acc.exc # "none"
                THEN ProjectsResult(<<>>, <<>>, acc.exc, acc.uuid)
                ELSE ProjectsResult(acc.parsed, acc.errors, "none", acc.uuid) :
                  acc \in {ProjectLoop(ProjectsAcc(uuid), content.active.rows, 2,
                                       content.active.header, hm, groups,
                                       existing_projects)} })

\* import_projects_from_excel(content, groups, existing_projects)
import_projects_from_excel(content, groups, existing_projects, uuid) ==
    IF ~content.readable
    THEN ProjectsResult(<<>>, <<RowError(0, "unreadable file")>>, "none", uuid)
    ELSE IF content.active.header = <<>>
    THEN ProjectsResult(<<>>, <<RowError(0, "empty file")>>, "none", uuid)
    ELSE Only({ ProjectsFromHeader(content, groups, existing_projects, uuid, hm) :
                  hm \in {header_map(content.active.header)} })

(***************************************************************************)
(* Uploads: the workbooks the scenarios hand to the importers.  A data row  *)
(* is written over the exporter's column layout and projected onto the     *)
(* columns a sheet has, so that the same rows occur under every header.     *)
(***************************************************************************)
\* the header row of a sheet with these titles
HeaderCells(titles) == [i \in DOMAIN titles |-> StrCell(titles[i])]

\* the row with None in each of n columns
BlankRow(n) == [i \in 1..n |-> NoneCell]

\* the cells of a row that fall under the columns cols, in that order
Project2(row, cols) == [i \in DOMAIN cols |-> row[cols[i]]]

\* the sheet with the columns cols of the layout titles and these rows
SheetOf(titles, cols, rows) ==
    Sheet(HeaderCells(Project2(titles, cols)),
          [i \in DOMAIN rows |-> Project2(rows[i], cols)])

\* a row of the combined GTM sheet: stage title, order, status and
\* description, task title, subtask title and done flag, comment
GtmRow(stage, order, status, description, task, sub, done, comment) ==
    [BlankRow(Len(GtmHeaders)) EXCEPT
        ![2] = stage, ![1] = order, ![7] = status, ![3] = description,
        ![11] = task, ![18] = sub, ![19] = done, ![20] = comment]

GtmRows ==
    { BlankRow(Len(GtmHeaders)),
      GtmRow(StrCell(<<"a">>), NoneCell, NoneCell, NoneCell,
             NoneCell, NoneCell, NoneCell, NoneCell),
      GtmRow(StrCell(<<"A", " ">>), IntCell(1), StrCell(<<"D", "o", "n", "e">>), StrCell(<<"b">>),
             StrCell(<<"a">>), NoneCell, NoneCell, StrCell(<<"b">>)),
      GtmRow(StrCell(<<"a">>), StrCell(<<"2">>), StrCell(<<"d", "o", "n", "e">>), NoneCell,
             StrCell(<<"A">>), StrCell(<<"b">>), StrCell(<<"y">>), NoneCell),
      GtmRow(StrCell(<<"b">>), StrCell(<<"a">>), NoneCell, NoneCell,
             StrCell(<<"a">>), NoneCell, NoneCell, NoneCell),
      GtmRow(StrCell(<<"b">>), NoneCell, StrCell(<<"b">>), NoneCell,
             NoneCell, NoneCell, NoneCell, NoneCell),
      GtmRow(NoneCell, NoneCell, NoneCell, NoneCell,
             StrCell(<<"a">>), NoneCell, NoneCell, NoneCell),
      GtmRow(IntCell(1), NoneCell, NoneCell, IntCell(2),
             NoneCell, NoneCell, NoneCell, NoneCell),
      [GtmRow(StrCell(<<"a">>), NoneCell, NoneCell, NoneCell,
              StrCell(<<"b">>), NoneCell, NoneCell, NoneCell)
          EXCEPT ![13] = StrCell(<<"b">>)] }

\* the column sets of the uploaded GTM sheets: the exporter's layout, the
\* layout without the stage title, the layout without the stage description,
\* the layout without the stage order
GtmLayouts ==
    { [i \in 1..Len(GtmHeaders) |-> i],
      <<1>> \o [i \in 1..(Len(GtmHeaders) - 2) |-> i + 2],
      <<1, 2>> \o [i \in 1..(Len(GtmHeaders) - 3) |-> i + 3],
      [i \in 1..(Len(GtmHeaders) - 1) |-> i + 1] }

SingleSheetUploads ==
    { Workbook(SheetOf(GtmHeaders, cols, rows), <<>>, <<>>) :
          cols \in GtmLayouts, rows \in SeqsUpTo(GtmRows, MaxRows) }

\* the headers of a legacy workbook: the stage sheet, the sheet "Задачи"
\* and the sheet "Подзадачи", titled with the keys _import_gtm_legacy reads
LegacyStageHeaders ==
    << <<"S", "t", "a", "g", "e", " ", "t", "i", "t", "l", "e">>, <<"O", "r", "d", "e", "r">>, <<"S", "t", "a", "t", "u", "s">>, <<"R", "i", "s", "k">>, <<"C", "h", "e", "c", "k", "l", "i", "s", "t">>,
       <<"D", "e", "s", "c", "r", "i", "p", "t", "i", "o", "n">> >>
LegacyTaskHeaders ==
    << <<"S", "t", "a", "g", "e">>, <<"T", "a", "s", "k", " ", "o", "r", "d", "e", "r">>, <<"T", "a", "s", "k", " ", "t", "i", "t", "l", "e">>, <<"S", "t", "a", "t", "u", "s">>, <<"U", "r", "g", "e", "n", "c", "y">>,
       <<"I", "m", "p", "o", "r", "t", "a", "n", "t">>, <<"D", "e", "s", "c", "r", "i", "p", "t", "i", "o", "n">>, <<"D", "u", "e">> >>
LegacySubtaskHeaders ==
    << <<"S", "t", "a", "g", "e">>, <<"T", "a", "s", "k", " ", "o", "r", "d", "e", "r">>, <<"S", "u", "b", "t", "a", "s", "k", " ", "t", "i", "t", "l", "e">>, <<"D", "o", "n", "e">>,
       <<"S", "u", "b", "t", "a", "s", "k", " ", "o", "r", "d", "e", "r">> >>

LegacyStageRows ==
    { BlankRow(Len(LegacyStageHeaders)),
      << StrCell(<<"a">>), NoneCell, NoneCell, NoneCell, NoneCell, NoneCell >>,
      << StrCell(<<"B", " ">>), IntCell(1), StrCell(<<"d", "o", "n", "e">>), StrCell(<<"y">>),
         StrCell(<<"[", "x", "]", " ", "a", ";", "b">>), StrCell(<<"b">>) >>,
      << StrCell(<<"b">>), StrCell(<<"a">>), NoneCell, NoneCell, NoneCell, NoneCell >> }

LegacyTaskRows ==
    { BlankRow(Len(LegacyTaskHeaders)),
      << StrCell(<<"A">>), NoneCell, StrCell(<<"a">>), StrCell(<<"D", "o", "n", "e">>), NoneCell,
         IntCell(1), NoneCell, NoneCell >>,
      << StrCell(<<"b">>), IntCell(1), StrCell(<<"b">>), NoneCell, StrCell(<<"h", "i", "g", "h">>),
         NoneCell, NoneCell, NoneCell >>,
      << StrCell(<<"a">>), StrCell(<<"a">>), NoneCell, NoneCell, NoneCell, NoneCell,
         NoneCell, NoneCell >>,
      << IntCell(1), NoneCell, StrCell(<<"a">>), NoneCell, NoneCell, NoneCell,
         NoneCell, NoneCell >> }

LegacySubtaskRows ==
    { BlankRow(Len(LegacySubtaskHeaders)),
      << StrCell(<<"a">>), NoneCell, StrCell(<<"b">>), StrCell(<<"y">>), NoneCell >>,
      << StrCell(<<"b">>), IntCell(1), NoneCell, NoneCell, NoneCell >> }

\* "workbook[name] if name in workbook.sheetnames": absent, or a sheet
OptionalSheets(titles, Rows) ==
    {<<>>} \cup {<<Sheet(HeaderCells(titles), rows)>> : rows \in SeqsUpTo(Rows, MaxSubRows)}

LegacyUploads ==
    { Workbook(Sheet(HeaderCells(LegacyStageHeaders), rows), tasks, subtasks) :
          rows \in SeqsUpTo(LegacyStageRows, MaxRows),
          tasks \in OptionalSheets(LegacyTaskHeaders, LegacyTaskRows),
          subtasks \in OptionalSheets(LegacySubtaskHeaders, LegacySubtaskRows) }

\* a file that is no workbook, and a workbook whose sheet has no row at all
BrokenUploads == {Unreadable, Workbook(Sheet(<<>>, <<>>), <<>>, <<>>)}

GtmUploads == SingleSheetUploads \cup LegacyUploads \cup BrokenUploads

\* a row of a characteristics sheet, in the exporter's column order
CharRows ==
    { BlankRow(Len(CharHeaders)),
      << StrCell(<<"a">>), NoneCell, StrCell(<<"a">>), StrCell(<<"a">>),
         StrCell(<<"1">>), NoneCell, StrCell(<<"n", "u", "m", "b", "e", "r">>), NoneCell >>,
      << StrCell(<<"A", " ">>), NoneCell, StrCell(<<"A">>), StrCell(<<"a", " ">>),
         StrCell(<<"b">>), StrCell(<<"b">>), NoneCell, NoneCell >>,
      << StrCell(<<"b">>), IntCell(1), NoneCell, StrCell(<<"b">>),
         StrCell(<<"y">>), NoneCell, StrCell(<<"C", "h", "e", "c", "k", "b", "o", "x">>), IntCell(2) >>,
      << NoneCell, NoneCell, StrCell(<<"a">>), StrCell(<<"a">>),
         NoneCell, NoneCell, NoneCell, NoneCell >>,
      << StrCell(<<"a">>), NoneCell, NoneCell, NoneCell,
         StrCell(<<"b">>), NoneCell, NoneCell, NoneCell >>,
      << StrCell(<<"a">>), NoneCell, IntCell(1), NoneCell,
         NoneCell, NoneCell, NoneCell, NoneCell >> }

\* the column sets of the uploaded characteristics sheets: the exporter's
\* layout, the layout without "Field type", the layout without the orders
CharLayouts == { <<1, 2, 3, 4, 5, 6, 7, 8>>, <<1, 2, 3, 4, 5, 6, 8>>,
                 <<1, 3, 4, 5, 6, 7>> }

CharUploads ==
    { Workbook(SheetOf(CharHeaders, cols, rows), <<>>, <<>>) :
          cols \in CharLayouts, rows \in SeqsUpTo(CharRows, MaxRows) }
        \cup BrokenUploads

\* a row of a project list: ID, Short ID, name, group, brand, market
ProjectListRow(id, short_id, name, group, market) ==
    [BlankRow(Len(ProjectHeaders)) EXCEPT
        ![1] = id, ![2] = short_id, ![3] = name, ![4] = group,
        ![5] = StrCell(<<"b">>), ![6] = market]

ProjectListRows ==
    { BlankRow(Len(ProjectHeaders)),
      ProjectListRow(StrCell(<<"3">>), NoneCell, StrCell(<<"a">>), StrCell(<<"A">>),
                     StrCell(<<"a">>)),
      ProjectListRow(StrCell(<<"3">>), IntCell(2), StrCell(<<"b">>), StrCell(<<"a">>),
                     NoneCell),
      ProjectListRow(StrCell(<<"4", " ">>), StrCell(<<"a">>), StrCell(<<"b">>), StrCell(<<"b">>),
                     StrCell(<<"a">>)),
      ProjectListRow(NoneCell, IntCell(1), StrCell(<<"a">>), StrCell(<<"a", " ">>),
                     StrCell(<<"a">>)),
      ProjectListRow(StrCell(<<"9">>), StrCell(<<"2">>), StrCell(<<"a">>), StrCell(<<"B">>),
                     StrCell(<<"a">>)),
      ProjectListRow(NoneCell, NoneCell, StrCell(<<"a">>), StrCell(<<"a", "b">>),
                     StrCell(<<"a">>)),
      ProjectListRow(NoneCell, NoneCell, NoneCell, StrCell(<<"a">>), StrCell(<<"a">>)),
      ProjectListRow(StrCell(<<"a">>), NoneCell, StrCell(<<"a">>), StrCell(<<"a">>),
                     StrCell(<<"a">>)),
      ProjectListRow(NoneCell, NoneCell, StrCell(<<"a">>), StrCell(<<"a">>), NoneCell),
      [ProjectListRow(NoneCell, NoneCell, StrCell(<<"b">>), StrCell(<<"a">>),
                      StrCell(<<"a">>))
          EXCEPT ![7] = StrCell(<<"b">>)] }

\* the column sets of the uploaded project lists: the exporter's layout,
\* the layout without "Product group", the layout without "Short ID"
ProjectLayouts ==
    { [i \in 1..Len(ProjectHeaders) |-> i],
      <<1, 2, 3>> \o [i \in 1..(Len(ProjectHeaders) - 4) |-> i + 4],
      <<1>> \o [i \in 1..(Len(ProjectHeaders) - 2) |-> i + 2] }

\* project lists with custom-field columns after the exporter's columns:
\* one column, two columns whose keys differ only in letter case, two columns
\* with different keys; every row names a new project in an existing group
CustomFieldTitles ==
    { << <<"C", "F", ":", "a">> >>,
      << <<"C", "F", ":", "a">>, <<"C", "F", ":", "A">> >>,
      << <<"C", "F", ":", "a">>, <<"C", "F", ":", "b">> >> }

CustomFieldCells == {NoneCell, StrCell(<<>>), StrCell(<<"a">>), StrCell(<<"b">>)}

\* the rows under n custom-field columns
CustomFieldRows(n) ==
    { ProjectListRow(NoneCell, NoneCell, StrCell(<<"a">>), StrCell(<<"a">>),
                     StrCell(<<"a">>)) \o cells :
          cells \in [1..n -> CustomFieldCells] }

CustomFieldUploads ==
    UNION { { Workbook(Sheet(HeaderCells(ProjectHeaders \o titles), rows), <<>>, <<>>) :
                rows \in SeqsUpTo(CustomFieldRows(Len(titles)), MaxRows) } :
            titles \in CustomFieldTitles }

ProjectUploads ==
    { Workbook(SheetOf(ProjectHeaders, cols, rows), <<>>, <<>>) :
          cols \in ProjectLayouts, rows \in SeqsUpTo(ProjectListRows, MaxRows) }
        \cup CustomFieldUploads
        \cup BrokenUploads

\* the store file the import scenarios start from: two groups, a project
\* without characteristics and with one GTM stage, and a project with one
\* characteristics section
StoreFile ==
    [product_groups |-> << ProductGroup(1, <<"a">>), ProductGroup(2, <<"B", " ">>) >>,
     projects |->
        << [Project(3, <<1>>, 1, <<"a">>) EXCEPT
               !.market = StrCell(<<"a">>),
               !.gtm_stages = << GTMStage(5, <<"a">>, NoneCell, 0, "not_started",
                                          FALSE, <<>>) >>],
           [Project(4, <<2>>, 2, <<"b">>) EXCEPT
               !.market = StrCell(<<"a">>),
               !.characteristics =
                   << CharacteristicSection(6, <<"a">>, 0,
                          << CharacteristicField(7, <<"a">>, <<"a">>, "text", 0) >>) >>] >>,
     gtm_templates |-> <<>>,
     next_project_short_id |-> 3]

\* the first value uuid4() returns in the import scenarios: above every id
\* of StoreFile and every id an uploaded sheet names
FirstUuid == 10

(***************************************************************************)
(* Scenario SpecParse: one upload, drawn at the start, is handed to the     *)
(* importer it is meant for.  The importers are pure: the store is the      *)
(* opened StoreFile throughout and provides the groups and the projects     *)
(* the importers are given.                                                 *)
(***************************************************************************)
Request(op, content, project) == [op |-> op, content |-> content, project |-> project]

ParseRequests ==
    {Request("gtm", content, 0) : content \in GtmUploads}
        \cup {Request("projects", content, 0) : content \in ProjectUploads}
        \cup {Request("characteristics", content, p) :
                  content \in CharUploads, p \in DOMAIN StoreFile.projects}

\* the record of an importer call: the importer, the upload, the position
\* of the project passed (0 for none) and what the importer returned
Parsed(op, req, result) ==
    [op |-> op, content |-> req.content, project |-> req.project, result |-> result]

InitParse ==
    /\ store = open_repository(StoreFile)
    /\ disk = save(StoreFile)
    /\ nextUuid = FirstUuid
    /\ request \in {<<r>> : r \in ParseRequests}
    /\ last = Called("init", {}, <<>>, "none")

ParseGtmStages ==
    /\ request # <<>> /\ request[1].op = "gtm"
    /\ LET result == import_gtm_stages_from_excel(request[1].content, nextUuid)
       IN  /\ last' = Parsed("import_gtm_stages_from_excel", request[1], result)
           /\ nextUuid' = result.uuid
    /\ request' = <<>>
    /\ UNCHANGED <<store, disk>>

ParseProjects ==
    /\ request # <<>> /\ request[1].op = "projects"
    /\ LET result == import_projects_from_excel(request[1].content,
                                                store.product_groups,
                                                store.projects, nextUuid)
       IN  /\ last' = Parsed("import_projects_from_excel", request[1], result)
           /\ nextUuid' = result.uuid
    /\ request' = <<>>
    /\ UNCHANGED <<store, disk>>

ParseCharacteristics ==
    /\ request # <<>> /\ request[1].op = "characteristics"
    /\ LET result == import_characteristics_from_excel(
                         request[1].content, store.projects[request[1].project],
                         nextUuid)
       IN  /\ last' = Parsed("import_characteristics_from_excel", request[1], result)
           /\ nextUuid' = result.uuid
    /\ request' = <<>>
    /\ UNCHANGED <<store, disk>>

NextParse ==
    \/ ParseGtmStages
    \/ ParseProjects
    \/ ParseCharacteristics

SpecParse == InitParse /\ [][NextParse]_vars

(***************************************************************************)
(* Properties of the importers, over Scenario SpecParse.                    *)
(***************************************************************************)
\* the importer call the state records
GtmCall  == last.op = "import_gtm_stages_from_excel"
ProjectsCall == last.op = "import_projects_from_excel"
CharacteristicsCall == last.op = "import_characteristics_from_excel"

\* the uploaded file is a workbook whose first sheet has a header row, and
\* that row has no column titled with the stage title header
LacksStageTitle(content) ==
    /\ content.readable
    /\ content.active.header # <<>>
    /\ \A i \in DOMAIN content.active.header :
           Lower(Strip(StrOf(content.active.header[i]))) # Lower(GtmHeaders[2])

\* C5: a GTM spreadsheet whose header row lacks the stage title column
\* yields exactly one error, which names no data row, and empty stage and
\* task lists, whatever its other headers and its data rows hold; no data
\* row is processed (no entity id is drawn and no exception is raised).
C5_MissingStageTitleIsOneStructuralError ==
    (GtmCall /\ LacksStageTitle(last.content)) =>
        /\ last.result.exc = "none"
        /\ last.result.stages = <<>>
        /\ last.result.tasks = <<>>
        /\ Len(last.result.errors) = 1
        /\ last.result.errors[1].row = 0
        /\ last.result.uuid = FirstUuid

\* a sheet without the stage title column that has the task columns and a
\* data row with a task in it
C5_Witness ==
    /\ GtmCall /\ LacksStageTitle(last.content)
    /\ \E i \in DOMAIN last.content.active.header :
           Lower(StrOf(last.content.active.header[i])) = Lower(GtmHeaders[11])
    /\ \E r \in DOMAIN last.content.active.rows : ~AllNone(last.content.active.rows[r])
    /\ last.result.errors = <<RowError(0, "missing columns")>>

\* the rows of a sheet that have a value in some cell
DropBlank(rows) == SelectSeq(rows, LAMBDA r : ~AllNone(r))

\* the upload with the all-empty data rows of each of its sheets taken out
WithoutBlankRows(content) ==
    [readable |-> content.readable,
     active   |-> Sheet(content.active.header, DropBlank(content.active.rows)),
     tasks    |-> [i \in DOMAIN content.tasks |->
                      Sheet(content.tasks[i].header, DropBlank(content.tasks[i].rows))],
     subtasks |-> [i \in DOMAIN content.subtasks |->
                      Sheet(content.subtasks[i].header,
                            DropBlank(content.subtasks[i].rows))]]

\* the data rows of the sheet an error speaks of
RowsNamedBy(content, error) ==
    IF error.msg \in {"task: stage not found", "task: bad task order",
                      "task: empty task title"}
    THEN content.tasks[1].rows
    ELSE IF error.msg \in {"subtask: stage not found", "subtask: bad task order",
                           "subtask: empty title"}
    THEN content.subtasks[1].rows
    ELSE content.active.rows

\* what a result says apart from the row numbers in its errors
Unnumbered(result) ==
    [result EXCEPT !.errors = [i \in DOMAIN @ |-> @[i].msg]]

\* the recorded importer called again, on another upload
Again(content) ==
    CASE GtmCall -> import_gtm_stages_from_excel(content, FirstUuid)
      [] ProjectsCall ->
             import_projects_from_excel(content, store.product_groups,
                                        store.projects, FirstUuid)
      [] CharacteristicsCall ->
             import_characteristics_from_excel(content, store.projects[last.project],
                                               FirstUuid)

\* C7: in every import path (single-sheet GTM, the legacy stage, task and
\* subtask sheets, projects, characteristics) a data row whose cells are all
\* empty adds no error and creates or modifies no entity: no error names
\* such a row, and the importer returns the entities, the errors and the
\* exception it returns for the same upload without its empty rows.
C7_BlankRowsChangeNothing ==
    (GtmCall \/ ProjectsCall \/ CharacteristicsCall) =>
        /\ \A i \in DOMAIN last.result.errors :
               LET error == last.result.errors[i]
               IN  error.row # 0 =>
                       ~AllNone(RowsNamedBy(last.content, error)[error.row - 1])
        /\ WithoutBlankRows(last.content) # last.content =>
               Unnumbered(last.result) = Unnumbered(Again(WithoutBlankRows(last.content)))

\* an upload with an empty row between two rows that yield an entity or an
\* error, imported without an exception
C7_Witness ==
    /\ GtmCall \/ ProjectsCall \/ CharacteristicsCall
    /\ last.result.exc = "none"
    /\ Len(last.content.active.rows) = 2
    /\ AllNone(last.content.active.rows[1])
    /\ ~AllNone(last.content.active.rows[2])
    /\ \/ last.result.errors # <<>> /\ last.result.errors[1].row = 3
       \/ CharacteristicsCall /\ last.result.sections # <<>>

\* the call imported a combined GTM sheet and returned
SingleSheetReturned ==
    /\ GtmCall /\ last.content.readable /\ last.content.active.header # <<>>
    /\ GtmKey(2) \in DOMAIN header_map(last.content.active.header)
    /\ {GtmKey(11), GtmKey(18), GtmKey(20)}
           \cap DOMAIN header_map(last.content.active.header) # {}
    /\ last.result.exc = "none"

\* the cell of a data row under a header of the combined sheet
GtmCell(r, i) ==
    last.content.active.rows[r][header_map(last.content.active.header)[GtmKey(i)]]

\* the data rows that name a stage, and the stage title of a row compared
\* as the claim compares it: trimmed, without regard to case
StageRows ==
    {r \in DOMAIN last.content.active.rows :
        ~AllNone(last.content.active.rows[r]) /\ Truthy(GtmCell(r, 2))}
TitleKey(r) == Lower(Strip(StrOf(GtmCell(r, 2))))

\* the first data row with the stage title of row r
FirstRowOf(r) ==
    CHOOSE f \in StageRows :
        /\ TitleKey(f) = TitleKey(r)
        /\ \A g \in StageRows : TitleKey(g) = TitleKey(r) => f <= g

\* the returned stages titled as row r is
StagesOf(r) ==
    {k \in DOMAIN last.result.stages :
        Lower(Strip(last.result.stages[k].title)) = TitleKey(r)}

\* C8: in one single-sheet GTM import the data rows whose stage titles are
\* equal after trimming, case-insensitively, produce exactly one stage: its
\* title, description and status are those of the first such row, whatever
\* later rows hold, and the task of every such row carries that stage's id.
C8_OneStagePerTitle ==
    SingleSheetReturned =>
        /\ Len(last.result.stages) = Cardinality({TitleKey(r) : r \in StageRows})
        /\ \A r \in StageRows :
               /\ Cardinality(StagesOf(r)) = 1
               /\ \A k \in StagesOf(r) :
                      LET stage == last.result.stages[k]
                          status_raw == GtmCell(FirstRowOf(r), 7)
                      IN  /\ stage.title = Strip(StrOf(GtmCell(FirstRowOf(r), 2)))
                          /\ stage.description = GtmCell(FirstRowOf(r), 3)
                          /\ stage.status =
                                 IF Truthy(status_raw) /\ StageStatusOf(status_raw) # <<>>
                                 THEN StageStatusOf(status_raw)[1]
                                 ELSE "not_started"
                          /\ Truthy(GtmCell(r, 11)) =>
                                 \E t \in DOMAIN last.result.tasks :
                                     /\ Lower(last.result.tasks[t].title)
                                            = Lower(Strip(StrOf(GtmCell(r, 11))))
                                     /\ last.result.tasks[t].gtm_stage_id = stage.id

\* two rows whose titles differ in case and in trailing blanks, the later
\* one with other stage fields and a task
C8_Witness ==
    /\ SingleSheetReturned
    /\ \E r \in StageRows :
           /\ FirstRowOf(r) # r
           /\ GtmCell(r, 2) # GtmCell(FirstRowOf(r), 2)
           /\ GtmCell(r, 3) # GtmCell(FirstRowOf(r), 3)
           /\ Truthy(GtmCell(r, 11))
    /\ Len(last.result.stages) = 1
    /\ Len(last.result.tasks) = 1

\* the call imported a project list with the required columns and returned
ProjectsReturned ==
    /\ ProjectsCall /\ last.content.readable /\ last.content.active.header # <<>>
    /\ {ProjectKey(3), ProjectKey(4), ProjectKey(5), ProjectKey(7)}
           \subseteq DOMAIN header_map(last.content.active.header)
    /\ last.result.exc = "none"

\* the cell of a data row under a header of the project list
ProjectCell(r, i) ==
    last.content.active.rows[r][header_map(last.content.active.header)[ProjectKey(i)]]

\* the data rows with a value in some cell, and those that name a project
FilledRows ==
    {r \in DOMAIN last.content.active.rows : ~AllNone(last.content.active.rows[r])}
NamedRows == {r \in FilledRows : Truthy(ProjectCell(r, 3))}

\* the group cell of row r is the name of a provided group, letter case aside
ExactGroupMatch(r) ==
    \E g \in DOMAIN store.product_groups :
        Lower(store.product_groups[g].name) = Lower(StrOf(ProjectCell(r, 4)))

\* the same with the blanks around both names trimmed first
TrimmedGroupMatch(r) ==
    \E g \in DOMAIN store.product_groups :
        Lower(Strip(store.product_groups[g].name))
            = Lower(Strip(StrOf(ProjectCell(r, 4))))

\* the returned errors that name data row r (sheet row r + 1)
ErrorsAt(r) == {i \in DOMAIN last.result.errors : last.result.errors[i].row = r + 1}

\* every filled row gave one error or one project, and every returned
\* project is in one of the provided groups
RowsAccountedFor ==
    /\ Len(last.result.projects) + Len(last.result.errors) = Cardinality(FilledRows)
    /\ \A k \in DOMAIN last.result.projects :
           \E g \in DOMAIN store.product_groups :
               last.result.projects[k].group_id = store.product_groups[g].id

\* C10 as stated: a row whose product-group name has no case-insensitive
\* exact match among the provided groups adds one row error and contributes
\* no project, and every returned project is in a provided group.
C10_ExactGroupMatchOnly ==
    ProjectsReturned =>
        /\ \A r \in NamedRows : ~ExactGroupMatch(r) => Cardinality(ErrorsAt(r)) = 1
        /\ RowsAccountedFor

\* C10, amended: a row whose product-group name has no case-insensitive
\* match, after trimming surrounding whitespace from both names, among the
\* provided groups adds one row error and contributes no project, and every
\* returned project has a group_id that is the id of a provided group.
C10_UnmatchedGroupIsRowError ==
    ProjectsReturned =>
        /\ \A r \in NamedRows : ~TrimmedGroupMatch(r) => Cardinality(ErrorsAt(r)) = 1
        /\ RowsAccountedFor

\* a row whose group is unknown next to a row whose group matches only
\* after trimming
C10_Witness ==
    /\ ProjectsReturned
    /\ \E r \in NamedRows : ~TrimmedGroupMatch(r) /\ Cardinality(ErrorsAt(r)) = 1
    /\ \E r \in NamedRows :
           TrimmedGroupMatch(r) /\ ~ExactGroupMatch(r) /\ ErrorsAt(r) = {}
    /\ Len(last.result.projects) = 1

\* C3: the short_id of an existing project is preserved across re-import:
\* every returned project that a row matched to an existing project by its
\* ID, and the project stored under that id after import_projects of the
\* returned list, has the short_id the existing project had before.
C3_ShortIdPreserved ==
    ProjectsReturned =>
        \A k \in DOMAIN last.result.projects :
            \A e \in DOMAIN store.projects :
                last.result.projects[k].id = store.projects[e].id =>
                    /\ last.result.projects[k].short_id = store.projects[e].short_id
                    /\ LET after == import_projects(store, last.result.projects).store
                       IN  after.projects[FirstIndex(after.projects,
                                                     store.projects[e].id)].short_id
                               = store.projects[e].short_id

\* the call imported a characteristics sheet that has the required columns
CharSheetAccepted ==
    /\ CharacteristicsCall /\ last.content.readable
    /\ last.content.active.header # <<>>
    /\ {CharKey(1)} \cup {CharKey(i) : i \in 3..7}
           \subseteq DOMAIN header_map(last.content.active.header)

\* the cell of a data row under a header of the characteristics sheet
CharCell(r, i) ==
    last.content.active.rows[r][header_map(last.content.active.header)[CharKey(i)]]

\* the sections the project had when the importer was called
SectionsBefore == store.projects[last.project].characteristics

\* data row r names the field f of the section s the project had: the
\* section title and both labels agree after trimming, case-insensitively
RowNamesField(r, s, f) ==
    /\ ~AllNone(last.content.active.rows[r])
    /\ CharCell(r, 1).t = "str" /\ CharCell(r, 3).t = "str" /\ CharCell(r, 4).t = "str"
    /\ Lower(Strip(CharCell(r, 1).s)) = Lower(Strip(SectionsBefore[s].title))
    /\ Lower(Strip(CharCell(r, 3).s)) = Lower(Strip(SectionsBefore[s].fields[f].label_ru))
    /\ Lower(Strip(CharCell(r, 4).s)) = Lower(Strip(SectionsBefore[s].fields[f].label_en))

\* C9: importing a characteristics sheet for a project that has sections
\* returns, and each field the project had is returned in its section under
\* the same id: updated in place and counted in fields_updated when a row
\* names its (Label RU, Label EN) pair, and otherwise with its labels,
\* values, type and order as they were.
C9_ExistingFieldsReconciled ==
    (CharSheetAccepted /\ SectionsBefore # <<>>) =>
        /\ last.result.exc = "none"
        /\ \A s \in DOMAIN SectionsBefore : \A f \in DOMAIN SectionsBefore[s].fields :
               \E s2 \in DOMAIN last.result.sections :
                   /\ last.result.sections[s2].id = SectionsBefore[s].id
                   /\ \E f2 \in DOMAIN last.result.sections[s2].fields :
                          LET field == last.result.sections[s2].fields[f2]
                              named == \E r \in DOMAIN last.content.active.rows :
                                           RowNamesField(r, s, f)
                          IN  /\ field.id = SectionsBefore[s].fields[f].id
                              /\ named => last.result.report.fields_updated > 0
                              /\ ~named => field = SectionsBefore[s].fields[f]

(***************************************************************************)
(* Scenario SpecImport: one upload is posted to an import endpoint of       *)
(* main.py for a project id, on the repository opened on StoreFile.  The    *)
(* state records what the parser returned, what the repository returned    *)
(* and the exception that left the handler.                                 *)
(***************************************************************************)
\* the ids a request is made for: the projects' ids and ids that are no
\* project's (the groups')
ImportProjectIds ==
    {StoreFile.projects[i].id : i \in DOMAIN StoreFile.projects}
        \cup {StoreFile.product_groups[i].id : i \in DOMAIN StoreFile.product_groups}

ImportRequests ==
    {Request("characteristics", content, id) :
         content \in CharUploads, id \in ImportProjectIds}
        \cup {Request("gtm", content, id) :
                  content \in SingleSheetUploads \cup BrokenUploads,
                  id \in ImportProjectIds}

\* the record of a handled request: the handler, the upload, the project
\* id, the parser's result, the repository's result and the exception that
\* left the handler ("none" for a response)
Handled(op, req, parsed, repo, exc) ==
    [op |-> op, content |-> req.content, project |-> req.project,
     parsed |-> parsed, repo |-> repo, exc |-> exc]

InitImport ==
    /\ store = open_repository(StoreFile)
    /\ disk = save(StoreFile)
    /\ nextUuid = FirstUuid
    /\ request \in {<<r>> : r \in ImportRequests}
    /\ last = Called("init", {}, <<>>, "none")

\* main.import_characteristics: the repository's 3-tuple does not unpack
\* into "sections, errors", so the handler raises ValueError when the
\* repository returns; log_event is not reached
ImportCharacteristics ==
    /\ request # <<>> /\ request[1].op = "characteristics"
    /\ \E r \in {repo_import_characteristics_from_excel(
                     store, request[1].project, request[1].content, nextUuid)} :
           /\ Commit(r)
           /\ nextUuid' = r.uuid
           /\ last' = Handled("import_characteristics", request[1], r.parsed,
                              [sections |-> r.sections, errors |-> r.errors,
                               report |-> r.report, exc |-> r.exc],
                              IF r.exc # "none" THEN r.exc ELSE "ValueError")
    /\ request' = <<>>

\* what main.import_gtm_stages does with the parser's result: the 3-tuple
\* does not unpack into "stages, errors"; a 2-tuple would be committed by
\* replace_gtm_stages when it holds no errors (log_event, which follows,
\* writes the project's history, which the model leaves out)
GtmStagesHandled(st, project_id, parsed) ==
    IF parsed.exc # "none" THEN Ret(st, parsed.exc, FALSE)
    ELSE IF Len(<<parsed.stages, parsed.tasks, parsed.errors>>) # Len(<<"stages", "errors">>)
    THEN Ret(st, "ValueError", FALSE)
    ELSE IF parsed.errors # <<>> THEN Ret(st, "HTTPException 400", FALSE)
    ELSE replace_gtm_stages(st, project_id, parsed.stages)

\* main.import_gtm_stages
ImportGtmStages ==
    /\ request # <<>> /\ request[1].op = "gtm"
    /\ IF get_project(store, request[1].project) = 0
       THEN /\ last' = Handled("import_gtm_stages", request[1],
                               GtmResult(<<>>, <<>>, <<>>, "none", nextUuid),
                               <<>>, "HTTPException 404")
            /\ UNCHANGED <<store, disk, nextUuid>>
       ELSE \E parsed \in {import_gtm_stages_from_excel(request[1].content, nextUuid)} :
                \E r \in {GtmStagesHandled(store, request[1].project, parsed)} :
                    /\ Commit(r)
                    /\ nextUuid' = parsed.uuid
                    /\ last' = Handled("import_gtm_stages", request[1], parsed,
                                       <<>>, r.exc)
    /\ request' = <<>>

NextImport ==
    \/ ImportCharacteristics
    \/ ImportGtmStages

SpecImport == InitImport /\ [][NextImport]_vars

(***************************************************************************)
(* Properties of the import endpoints, over Scenario SpecImport.            *)
(***************************************************************************)
\* C1: all-or-nothing commit: when parsing an uploaded characteristics or
\* GTM spreadsheet yields a non-empty error list, the import commits
\* nothing: the stored projects, with their gtm_stages, tasks and
\* characteristics, are in memory and in the JSON document what they were
\* before the call.
C1_ErrorsCommitNothing ==
    [][(last'.op \in {"import_characteristics", "import_gtm_stages"}
            /\ last'.parsed.errors # <<>>)
          => (store' = store /\ disk' = disk)]_vars

\* a characteristics sheet with a faulty row next to a valid one, parsed
\* for a project without sections into an error and a section, and a store
\* that is still the one the repository was opened on
C1_Witness ==
    /\ last.op = "import_characteristics"
    /\ last.parsed.arity = 3
    /\ last.parsed.errors # <<>>
    /\ last.parsed.sections # <<>>
    /\ last.repo.exc = "none"
    /\ last.repo.errors = last.parsed.errors
    /\ store = open_repository(StoreFile)
    /\ disk = save(StoreFile)

\* the posted file is no workbook, has no row, or has a header row that
\* lacks one of the six required headers
StructurallyBroken(content) ==
    \/ ~content.readable
    \/ content.active.header = <<>>
    \/ \E i \in {1} \cup 3..7 :
           \A h \in DOMAIN content.active.header :
               Lower(Strip(StrOf(content.active.header[h]))) # Lower(CharHeaders[i])

\* C6: a characteristics spreadsheet that is unreadable, empty or lacks a
\* required header reaches the caller of the repository import as the
\* errors component of its result, with an empty section list and a single
\* error message, and no exception propagates.
C6_StructuralErrorIsReturned ==
    (/\ last.op = "import_characteristics"
     /\ get_project(store, last.project) # 0
     /\ StructurallyBroken(last.content)) =>
        /\ last.repo.exc = "none"
        /\ last.repo.sections = <<>>
        /\ Len(last.repo.errors) = 1

\* the project list has every column the importer reads, and every filled
\* row names a project, a provided group and a market
RowsValidButForId ==
    /\ ProjectsCall /\ last.content.readable /\ last.content.active.header # <<>>
    /\ {ProjectKey(i) : i \in 1..Len(ProjectHeaders)}
           \subseteq DOMAIN header_map(last.content.active.header)
    /\ \A r \in FilledRows :
           /\ Truthy(ProjectCell(r, 3)) /\ TrimmedGroupMatch(r)
           /\ ProjectCell(r, 6).t = "str"

\* the ID cell of row r is present and is the id of a known project
KnownId(r) ==
    /\ Truthy(ProjectCell(r, 1))
    /\ \E e \in DOMAIN store.projects :
           StrOfInt(store.projects[e].id) = Strip(StrOf(ProjectCell(r, 1)))

\* the filled data rows in sheet order
RECURSIVE InOrder(_)
InOrder(S) ==
    IF S = {} THEN <<>>
    ELSE LET m == CHOOSE x \in S : \A y \in S : x <= y
         IN  <<m>> \o InOrder(S \ {m})

\* C11: a row is matched to an existing project only when its ID cell is
\* present and equals the id of a known project; in every other case (empty
\* ID cell, an ID that is not a known id or not parseable as an id) the row
\* produces a new project.  Every otherwise valid row therefore yields one
\* project: the known project's id when the ID cell names it, an id no
\* existing project has otherwise.
C11_MatchedByIdOnly ==
    RowsValidButForId =>
        /\ last.result.exc = "none"
        /\ Len(last.result.projects) = Cardinality(FilledRows)
        /\ \A k \in DOMAIN last.result.projects :
               LET r == InOrder(FilledRows)[k]
               IN  IF KnownId(r)
                   THEN StrOfInt(last.result.projects[k].id)
                            = Strip(StrOf(ProjectCell(r, 1)))
                   ELSE \A e \in DOMAIN store.projects :
                            last.result.projects[k].id # store.projects[e].id

(***************************************************************************)
(* The exporters (exporters.py).  A written workbook is read back with the  *)
(* cell values it was given: text as text, numbers as numbers, a date as    *)
(* the datetime at midnight that pydantic takes for the same date.          *)
(***************************************************************************)
\* the value of an enum member: models.py names each member by its value in
\* upper case
EnumValue(members, status) ==
    Lower(CHOOSE name \in DOMAIN members : members[name] = status)

RECURSIVE Join(_, _)
\* sep.join(parts)
Join(parts, sep) ==
    IF parts = <<>> THEN <<>>
    ELSE IF Len(parts) = 1 THEN parts[1]
    ELSE parts[1] \o sep \o Join(Tail(parts), sep)

\* "да" / "нет" of _write_gtm_sheet, rendered "da" / "net"
YesCell == StrCell(<<"d", "a">>)
NoCell  == StrCell(<<"n", "e", "t">>)

\* stage_checklist without the "[x]" / "[ ]" markers
stage_checklist_unmarked(stage) ==
    LET items == StableSort(stage.checklist, OrderKeys(stage.checklist))
    IN  Join([i \in DOMAIN items |-> items[i].title], <<";", " ">>)

\* stage_checklist (lines 197-199)
stage_checklist(stage) ==
    LET items == StableSort(stage.checklist, OrderKeys(stage.checklist))
    IN  Join([i \in DOMAIN items |->
                 (IF items[i].done THEN <<"[", "x", "]">> ELSE <<"[", " ", "]">>)
                     \o <<" ">> \o items[i].title],
             <<";", " ">>)

\* ordered_stages (line 183)
ordered_stages(project) ==
    StableSort(project.gtm_stages, OrderKeys(project.gtm_stages))

\* ordered_tasks (lines 184-193): by the position of the task's stage (9999
\* when it has none), the attribute "order" no Task has, the due date
\* (date.max when absent) and the lowered title
ordered_tasks(project) ==
    LET stages == ordered_stages(project)
        Pos(id) == IF \E i \in DOMAIN stages : stages[i].id = id
                   THEN CHOOSE i \in DOMAIN stages :
                            stages[i].id = id
                            /\ \A j \in DOMAIN stages : stages[j].id = id => j <= i
                   ELSE 9999
    IN  StableSort(project.tasks,
            [i \in DOMAIN project.tasks |->
                <<Pos(project.tasks[i].gtm_stage_id), 0,
                  IF project.tasks[i].due_date.t = "date"
                  THEN project.tasks[i].due_date.n ELSE 9999>>
                    \o Codes(Lower(project.tasks[i].title))])

\* TaskUrgency.__members__
TaskUrgencyMembers == (<<"N", "O", "R", "M", "A", "L">> :> "normal") @@ (<<"H", "I", "G", "H">> :> "high")

RECURSIVE Flatten(_)
\* the concatenation of a sequence of sequences
Flatten(seqs) == IF seqs = <<>> THEN <<>> ELSE Head(seqs) \o Flatten(Tail(seqs))

\* the rows of a task when only its subtasks fan out
row_count_of_subtasks(subtasks, comments) == Max2(1, Len(subtasks))

\* "rows = max(1, len(subtasks), len(comments))" (line 204)
row_count(subtasks, comments) == Max2(1, Max2(Len(subtasks), Len(comments)))

\* the rows _write_gtm_sheet appends for one task of a stage (lines
\* 202-232); task is <<>> for the placeholder of a stage without tasks.  The
\* comment's timestamp is written as a text that names no date.
GtmTaskRows(stage, task, task_idx) ==
    LET subtasks == IF task = <<>> THEN <<>>
                    ELSE StableSort(task[1].subtasks, OrderKeys(task[1].subtasks))
        comments == IF task = <<>> THEN <<>> ELSE task[1].comments
        rows     == row_count(subtasks, comments)
    IN  [row_idx \in 1..rows |->
           << IntCell(stage.order),
              StrCell(stage.title),
              stage.description,
              stage.planned_start,
              stage.planned_end,
              stage.actual_end,
              StrCell(EnumValue(StageStatusMembers, stage.status)),
              IF stage.risk_flag THEN YesCell ELSE NoCell,
              StrCell(stage_checklist(stage)),
              IF task # <<>> THEN IntCell(task_idx) ELSE NoneCell,
              IF task # <<>> THEN StrCell(task[1].title) ELSE NoneCell,
              IF task # <<>> THEN task[1].description ELSE NoneCell,
              IF task # <<>> THEN StrCell(EnumValue(TaskStatusMembers, task[1].status))
              ELSE NoneCell,
              IF task # <<>> THEN task[1].due_date ELSE NoneCell,
              IF task # <<>> /\ task[1].important THEN YesCell ELSE NoneCell,
              IF task # <<>> THEN StrCell(EnumValue(TaskUrgencyMembers, task[1].urgency)) ELSE NoneCell,
              IF row_idx <= Len(subtasks) THEN IntCell(subtasks[row_idx].order)
              ELSE NoneCell,
              IF row_idx <= Len(subtasks) THEN StrCell(subtasks[row_idx].title)
              ELSE NoneCell,
              IF row_idx <= Len(subtasks) /\ subtasks[row_idx].done THEN YesCell
              ELSE NoneCell,
              IF row_idx <= Len(comments) THEN StrCell(comments[row_idx].text)
              ELSE NoneCell,
              IF row_idx <= Len(comments) THEN StrCell(<<"t">>) ELSE NoneCell >>]

\* the rows of one stage (lines 195-232): its tasks in order, or one
\* placeholder row
GtmStageRows(stage, tasks) ==
    LET related_tasks == SelectSeq(tasks, LAMBDA t : t.gtm_stage_id = stage.id)
    IN  IF related_tasks = <<>> THEN GtmTaskRows(stage, <<>>, 1)
        ELSE Flatten([task_idx \in DOMAIN related_tasks |->
                         GtmTaskRows(stage, <<related_tasks[task_idx]>>, task_idx)])

\* _write_gtm_sheet(workbook, project, title): the sheet it creates
write_gtm_sheet(project) ==
    Only({ Sheet(HeaderCells(GtmHeaders),
                 Flatten([i \in DOMAIN stages |-> GtmStageRows(stages[i], tasks)])) :
             stages \in {ordered_stages(project)}, tasks \in {ordered_tasks(project)} })

\* export_gtm_stages_to_excel(project): the workbook with the one sheet
export_gtm_stages_to_excel(project) == Workbook(write_gtm_sheet(project), <<>>, <<>>)

(***************************************************************************)
(* Sheet names (exporters.py, _make_sheet_name).  "Proekt" renders the      *)
(* Cyrillic default name of the source.                                     *)
(***************************************************************************)
EXCEL_SHEET_LIMIT == 31

DefaultSheetName == <<"P", "r", "o", "e", "k", "t">>

\* re.sub(r"[\\/*?:\[\]]", "_", base)
Sanitized(base) ==
    [i \in DOMAIN base |->
        IF base[i] \in {"\\", "/", "*", "?", ":", "[", "]"} THEN "_" ELSE base[i]]

\* cleaned (line 48) and trimmed (line 49)
Cleaned(base) ==
    IF Strip(Sanitized(base)) # <<>> THEN Strip(Sanitized(base)) ELSE DefaultSheetName
TrimmedName(base) ==
    SubSeq(Cleaned(base), 1, IF Len(Cleaned(base)) < EXCEL_SHEET_LIMIT
                             THEN Len(Cleaned(base)) ELSE EXCEL_SHEET_LIMIT)

\* the candidate of the loop at lines 52-55 for a suffix
Suffixed(trimmed, suffix) ==
    LET suffix_text == <<"_">> \o StrOfInt(suffix)
        keep == IF Len(trimmed) < EXCEL_SHEET_LIMIT - Len(suffix_text)
                THEN Len(trimmed) ELSE EXCEL_SHEET_LIMIT - Len(suffix_text)
    IN  SubSeq(trimmed, 1, keep) \o suffix_text

RECURSIVE NextFree(_, _, _)
\* the loop at lines 52-55: the first candidate not in used
NextFree(trimmed, used, suffix) ==
    IF Suffixed(trimmed, suffix) \notin used THEN Suffixed(trimmed, suffix)
    ELSE NextFree(trimmed, used, suffix + 1)

\* _make_sheet_name without its loop over the used names
make_sheet_name_unchecked(base, used) == TrimmedName(base)

\* _make_sheet_name(base, used): the name it returns (and adds to used)
make_sheet_name(base, used) ==
    IF TrimmedName(base) \notin used THEN TrimmedName(base)
    ELSE NextFree(TrimmedName(base), used, 1)

RECURSIVE SheetNames(_, _, _, _)
\* the loop of export_all_characteristics (lines 1168-1171): the names of
\* the sheets of the projects the filter lets through, in order
SheetNames(projects, project_filter, used_names, done) ==
    IF projects = <<>> THEN done
    ELSE IF project_filter # {} /\ Head(projects).id \notin project_filter
    THEN SheetNames(Tail(projects), project_filter, used_names, done)
    ELSE Only({ SheetNames(Tail(projects), project_filter,
                           used_names \cup {sheet_name}, Append(done, sheet_name)) :
                  sheet_name \in {make_sheet_name(
                                      IF Head(projects).name # <<>>
                                      THEN Head(projects).name ELSE DefaultSheetName,
                                      used_names)} })

\* export_all_characteristics(projects, groups, project_filter): the titles
\* of the sheets of the workbook, in order
export_all_characteristics(projects, project_filter) ==
    SheetNames(projects, project_filter, {}, <<>>)


(***************************************************************************)
(* export_projects_to_excel (exporters.py, lines 60-152).                   *)
(***************************************************************************)
\* _find_current_stage_name(project)
find_current_stage_name(project) ==
    LET hits == {i \in DOMAIN project.gtm_stages :
                    project.gtm_stages[i].id = project.current_gtm_stage_id}
    IN  IF project.current_gtm_stage_id = 0 \/ hits = {} THEN NoneCell
        ELSE StrCell(project.gtm_stages[CHOOSE i \in hits : \A j \in hits : i <= j].title)

RECURSIVE SortedTexts(_)
\* sorted(S) for a set of str: by code points
SortedTexts(S) ==
    IF S = {} THEN <<>>
    ELSE LET m == CHOOSE x \in S : \A y \in S \ {x} : KeyLess(Codes(x), Codes(y))
         IN  <<m>> \o SortedTexts(S \ {m})

\* "sorted({key for p in projects_list for key in p.custom_fields.keys()})"
CustomKeys(projects_list) ==
    SortedTexts(UNION {DOMAIN projects_list[i].custom_fields :
                          i \in DOMAIN projects_list})

\* the row of one project (lines 124-147); the launch date actually reached,
\* the priority, the prices and the descriptions are not part of the model
\* and are written as empty cells
ProjectExportRow(project, groups, custom_keys) ==
    LET named == {g \in DOMAIN groups : groups[g].id = project.group_id}
    IN  << StrCell(StrOfInt(project.id)),
           IF project.short_id = <<>> THEN NoneCell ELSE IntCell(project.short_id[1]),
           StrCell(project.name),
           IF named = {} THEN StrCell(<<>>)
           ELSE StrCell(groups[CHOOSE g \in named : \A h \in named : h <= g].name),
           StrCell(project.brand),
           project.market,
           StrCell(EnumValue(ProjectStatusMembers, project.status)),
           project.planned_launch,
           NoneCell,
           find_current_stage_name(project),
           NoneCell, NoneCell, NoneCell, NoneCell, NoneCell, NoneCell, NoneCell >>
        \o [k \in DOMAIN custom_keys |->
               IF custom_keys[k] \in DOMAIN project.custom_fields
               THEN project.custom_fields[custom_keys[k]] ELSE NoneCell]

\* the brand filter applied whenever a brand is passed, the empty one too
brand_unguarded(projects_list, brand) ==
    IF brand.t # "none"
    THEN SelectSeq(projects_list, LAMBDA p : Lower(p.brand) = Lower(brand.s))
    ELSE projects_list

\* "if brand: projects_list = [p ... if p.brand.lower() == brand.lower()]"
brand_filter(projects_list, brand) ==
    IF Truthy(brand)
    THEN SelectSeq(projects_list, LAMBDA p : Lower(p.brand) = Lower(brand.s))
    ELSE projects_list

\* the list of projects after the filters (lines 73-93); statuses is <<>>
\* for None and <<set>> for a set, current_stage_id is 0 for None
FilteredProjects(projects, statuses, include_archived, brand, current_stage_id, planned_from, planned_to) ==
    LET by_status == IF statuses # <<>>
                     THEN SelectSeq(projects, LAMBDA p : p.status \in statuses[1])
                     ELSE projects
        unarchived == IF ~include_archived
                      THEN SelectSeq(by_status, LAMBDA p : p.status # "archived")
                      ELSE by_status
        by_brand == brand_filter(unarchived, brand)
        by_stage == IF current_stage_id # 0
                    THEN SelectSeq(by_brand,
                                   LAMBDA p : p.current_gtm_stage_id = current_stage_id)
                    ELSE by_brand
        from == IF Truthy(planned_from)
                THEN SelectSeq(by_stage,
                               LAMBDA p : /\ p.planned_launch.t # "none"
                                          /\ p.planned_launch.n >= planned_from.n)
                ELSE by_stage
    IN  IF Truthy(planned_to)
        THEN SelectSeq(from, LAMBDA p : /\ p.planned_launch.t # "none"
                                        /\ p.planned_launch.n <= planned_to.n)
        ELSE from

\* export_projects_to_excel(projects, groups, statuses, include_archived,
\* brand, current_stage_id, planned_from, planned_to): the sheet written,
\* and the projects and groups as the call leaves them
export_projects_to_excel(projects, groups, statuses, include_archived, brand, current_stage_id, planned_from, planned_to) ==
    LET projects_list == FilteredProjects(projects, statuses, include_archived, brand,
                                          current_stage_id, planned_from, planned_to)
        custom_keys == CustomKeys(projects_list)
        headers == HeaderCells(ProjectHeaders)
                       \o [k \in DOMAIN custom_keys |->
                              StrCell(CUSTOM_FIELD_PREFIX \o custom_keys[k])]
    IN  [content  |-> Workbook(Sheet(headers,
                                     [i \in DOMAIN projects_list |->
                                         ProjectExportRow(projects_list[i], groups,
                                                          custom_keys)]),
                               <<>>, <<>>),
         projects |-> projects,
         groups   |-> groups]

(***************************************************************************)
(* Custom-field filters of the repository (storage.py, lines 81-227, and    *)
(* the queries list_projects, list_groups and the filter metadata).  A bag  *)
(* of custom fields is a function from keys to cells; numbers are whole.    *)
(***************************************************************************)
\* an absent optional value, and a present one
Absent == <<>>
Some(x) == <<x>>

\* _normalize_bool(value): a bool, or Absent for None; "da", "net" render
\* the Cyrillic tokens of the source
normalize_bool(value) ==
    CASE value.t = "bool" -> Some(value.n = 1)
      [] value.t = "int"  -> Some(value.n # 0)
      [] value.t = "str"  ->
            LET lowered == Lower(Strip(value.s))
            IN  IF lowered \in {<<"t", "r", "u", "e">>, <<"1">>, <<"y", "e", "s">>,
                                <<"d", "a">>, <<"o", "n">>}
                THEN Some(TRUE)
                ELSE IF lowered \in {<<"f", "a", "l", "s", "e">>, <<"0">>, <<"n", "o">>,
                                     <<"n", "e", "t">>, <<"o", "f", "f">>}
                THEN Some(FALSE)
                ELSE Absent
      [] OTHER -> Absent

\* _normalize_number(value): the number, or Absent for None; float() of a
\* str accepts blanks around the digits
normalize_number(value) ==
    CASE value.t \in {"int", "bool"} -> Some(value.n)
      [] value.t = "str" -> IF IntParses(value.s) THEN Some(IntOfStr(value.s)) ELSE Absent
      [] OTHER -> Absent

\* _normalize_date(value): the day of a date or of a str in ISO format
normalize_date(value) ==
    CASE value.t = "date" -> Some(value.n)
      [] value.t = "str" ->
            LET days == {d \in 1..28 : StrOf(DateCell(d)) = value.s}
            IN  IF days = {} THEN Absent ELSE Some(CHOOSE d \in days : TRUE)
      [] OTHER -> Absent

\* "fields.get(flt.field_id)"
FieldGet(fields, field_id) ==
    IF field_id \in DOMAIN fields THEN fields[field_id] ELSE NoneCell

\* "str(value).lower().find(flt.value.lower()) != -1"
Contains(text, part) ==
    \E i \in 0..(Len(text) - Len(part)) : SubSeq(text, i + 1, i + Len(part)) = part

\* a range whose ends are left out
InOpenRange(target, value_from, value_to) ==
    /\ value_from # Absent => target > value_from[1]
    /\ value_to # Absent => target < value_to[1]

\* the two bound checks of the number and the date branch of _matches_filter
InRange(target, value_from, value_to) ==
    /\ value_from # Absent => ~(target < value_from[1])
    /\ value_to # Absent => ~(target > value_to[1])

\* a filter request with the attributes _matches_filter reads; value is a
\* cell, values a list of str (empty for None), the other attributes are
\* Absent for None
CustomFieldFilterRequest(field_id, type, value, values, value_from, value_to, bool_value, date_from, date_to) ==
    [field_id |-> field_id, type |-> type, value |-> value, values |-> values,
     value_from |-> value_from, value_to |-> value_to, bool_value |-> bool_value,
     date_from |-> date_from, date_to |-> date_to]

\* _matches_filter(fields, flt)
matches_filter(fields, flt) ==
    LET value == FieldGet(fields, flt.field_id)
        text_found == /\ value.t # "none"
                      /\ Contains(Lower(StrOf(value)), Lower(StrOf(flt.value)))
    IN  CASE flt.type = "text" -> ~Truthy(flt.value) \/ text_found
          [] flt.type = "number" ->
                LET target == normalize_number(value)
                IN  IF target = Absent
                    THEN flt.value_from = Absent /\ flt.value_to = Absent
                    ELSE InRange(target[1], flt.value_from, flt.value_to)
          [] flt.type \in {"select", "enum"} ->
                \/ flt.values = <<>>
                \/ (value.t # "none" /\ StrOf(value) \in Range(flt.values))
          [] flt.type \in {"checkbox", "boolean"} ->
                \/ flt.bool_value = Absent
                \/ (normalize_bool(value) # Absent
                    /\ normalize_bool(value) = flt.bool_value)
          [] flt.type = "date" ->
                LET target == normalize_date(value)
                IN  IF target = Absent
                    THEN flt.date_from = Absent /\ flt.date_to = Absent
                    ELSE InRange(target[1], flt.date_from, flt.date_to)
          [] OTHER -> ~Truthy(flt.value) \/ text_found

RECURSIVE filter_loop(_, _, _)
\* "for flt in active: filtered = [item for item in filtered if ...]"; bags
\* holds the fields of the items, kept the indices still in the list
filter_loop(bags, filters, kept) ==
    IF filters = <<>> THEN kept
    ELSE filter_loop(bags, Tail(filters),
                     SelectSeq(kept, LAMBDA i : matches_filter(bags[i], Head(filters))))

\* _filter_by_custom_fields(items, filters, field_accessor=...): items are
\* the indices of the stored items, bags their fields
filter_by_custom_fields(bags, filters) ==
    IF filters = <<>> THEN [i \in DOMAIN bags |-> i]
    ELSE filter_loop(bags, filters, [i \in DOMAIN bags |-> i])

\* LocalRepository.list_projects(filters=filters), the other arguments at
\* their defaults: no filter but the custom-field ones
list_projects(st, filters) ==
    LET kept == filter_by_custom_fields(
                    [i \in DOMAIN st.projects |-> st.projects[i].custom_fields], filters)
    IN  [i \in DOMAIN kept |-> st.projects[kept[i]]]

\* LocalRepository.list_groups(filters=filters), the other arguments at
\* their defaults
list_groups(st, filters) ==
    LET kept == filter_by_custom_fields(
                    [i \in DOMAIN st.product_groups |-> st.product_groups[i].extra_fields],
                    filters)
    IN  [i \in DOMAIN kept |-> st.product_groups[kept[i]]]

\* _detect_field_type(values)
detect_field_type(values) ==
    LET non_null == SelectSeq(values, LAMBDA v : v.t # "none")
        unique   == {non_null[i].s : i \in {j \in DOMAIN non_null : non_null[j].s # <<>>}}
    IN  IF non_null = <<>> THEN "text"
        ELSE IF \A i \in DOMAIN non_null : non_null[i].t = "bool" THEN "checkbox"
        ELSE IF \A i \in DOMAIN non_null : non_null[i].t \in {"int", "bool"} THEN "number"
        ELSE IF \A i \in DOMAIN non_null : normalize_date(non_null[i]) # Absent THEN "date"
        ELSE IF (\A i \in DOMAIN non_null : non_null[i].t = "str")
                /\ 1 < Cardinality(unique) /\ Cardinality(unique) <= 8
        THEN "select"
        ELSE "text"

\* the options of a select field (lines 155-160): each value as text with
\* the number of items that hold it, sorted by the text
SelectOptions(values) ==
    LET counted == SelectSeq(values, LAMBDA v : PresentCell(v))
        texts   == SortedTexts({StrOf(counted[i]) : i \in DOMAIN counted})
    IN  [k \in DOMAIN texts |->
            [value |-> texts[k],
             count |-> Cardinality({i \in DOMAIN counted : StrOf(counted[i]) = texts[k]})]]

\* the keys counted once and left out
build_meta_of_any_count(bags) ==
    LET keys == SortedTexts(UNION {DOMAIN bags[i] : i \in DOMAIN bags})
        metas == [k \in DOMAIN keys |->
                     LET holders == SelectSeq([i \in DOMAIN bags |-> i],
                                              LAMBDA i : keys[k] \in DOMAIN bags[i])
                         values  == [j \in DOMAIN holders |-> bags[holders[j]][keys[k]]]
                         field_type == detect_field_type(values)
                     IN  [field_id |-> keys[k], label_ru |-> keys[k], label_en |-> keys[k],
                          type |-> field_type,
                          options |-> IF field_type = "select"
                                      THEN Some(SelectOptions(values)) ELSE Absent,
                          count |-> Len(holders)]]
    IN  StableSort(metas, [i \in DOMAIN metas |-> Codes(Lower(metas[i].label_ru))])

\* _build_custom_field_meta(items, field_accessor, counter_key=...): bags
\* holds the fields of the items.  The metas of keys that are equal without
\* regard to case come in the order of the keys' code points.
build_custom_field_meta(bags) ==
    LET keys == SortedTexts(UNION {DOMAIN bags[i] : i \in DOMAIN bags})
        reused == SelectSeq(keys, LAMBDA key :
                      Cardinality({i \in DOMAIN bags : key \in DOMAIN bags[i]}) > 1)
        metas == [k \in DOMAIN reused |->
                     LET holders == SelectSeq([i \in DOMAIN bags |-> i],
                                              LAMBDA i : reused[k] \in DOMAIN bags[i])
                         values  == [j \in DOMAIN holders |-> bags[holders[j]][reused[k]]]
                         field_type == detect_field_type(values)
                     IN  [field_id |-> reused[k], label_ru |-> reused[k],
                          label_en |-> reused[k], type |-> field_type,
                          options |-> IF field_type = "select"
                                      THEN Some(SelectOptions(values)) ELSE Absent,
                          count |-> Len(holders)]]
    IN  StableSort(metas, [i \in DOMAIN metas |-> Codes(Lower(metas[i].label_ru))])

\* LocalRepository.list_project_filter_meta
list_project_filter_meta(st) ==
    build_custom_field_meta([i \in DOMAIN st.projects |-> st.projects[i].custom_fields])

\* LocalRepository.list_group_filter_meta
list_group_filter_meta(st) ==
    build_custom_field_meta(
        [i \in DOMAIN st.product_groups |-> st.product_groups[i].extra_fields])

(***************************************************************************)
(* Scenario SpecCall: one call of an exporter, of a codec function or of a  *)
(* repository query, with its arguments drawn at the start.  The calls      *)
(* change nothing: the store is the opened StoreFile throughout.            *)
(***************************************************************************)
MaxStages == 2

\* a stage as a project holds it
StageOf(title, order, status, risk_flag, checklist, planned_start, planned_end) ==
    [GTMStage(0, title, NoneCell, order, status, risk_flag, checklist)
     EXCEPT !.planned_start = planned_start, !.planned_end = planned_end]

\* the stages the exported projects are made of: plain, with every field
\* set, with a title that differs from another in case only, with blanks
\* around the title, with a separator or blanks inside a checklist item,
\* with an empty title
StageInputs ==
    { StageOf(<<"a">>, 0, "not_started", FALSE, <<>>, NoneCell, NoneCell),
      StageOf(<<"B">>, 1, "done", TRUE,
              <<ChecklistItem(<<"a">>, TRUE, 0), ChecklistItem(<<>>, FALSE, 1)>>,
              DateCell(1), DateCell(2)),
      StageOf(<<"A">>, 0, "in_progress", FALSE,
              <<ChecklistItem(<<"b">>, FALSE, 1), ChecklistItem(<<"[", "x", "]">>, TRUE, 0)>>,
              NoneCell, DateCell(1)),
      StageOf(<<" ", "a">>, 2, "cancelled", TRUE, <<>>, NoneCell, NoneCell),
      StageOf(<<"b">>, 1, "not_started", FALSE,
              <<ChecklistItem(<<"a", ";", "b">>, FALSE, 0)>>, NoneCell, NoneCell),
      StageOf(<<"1">>, 0, "in_progress", TRUE,
              <<ChecklistItem(<<"a", " ">>, TRUE, 0)>>, DateCell(2), NoneCell),
      StageOf(<<>>, 1, "done", FALSE, <<>>, NoneCell, NoneCell) }

\* a task as a project holds it
TaskOf(id, title, gtm_stage_id, subtasks, comments) ==
    [Task(id, title, NoneCell, "todo", FALSE, "normal", gtm_stage_id)
     EXCEPT !.subtasks = subtasks, !.comments = comments]

\* the task lists of the exported projects: none, one task with two
\* subtasks and a comment under the first stage, two tasks under it and one
\* under no stage
TaskInputs ==
    { <<>>,
      << TaskOf(8, <<"a">>, 1, <<Subtask(<<"b">>, TRUE, 1), Subtask(<<"a">>, FALSE, 0)>>,
                <<Comment(<<"a">>)>>) >>,
      << TaskOf(8, <<"b">>, 1, <<>>, <<Comment(<<"a">>), Comment(<<"b">>)>>),
         TaskOf(9, <<"a">>, 1, <<Subtask(<<"a">>, FALSE, 0)>>, <<>>),
         TaskOf(7, <<"a">>, 0, <<>>, <<>>) >> }

\* the exported projects: up to MaxStages stages with the ids 1, 2, ..
ExportedProjects ==
    { [Project(3, <<1>>, 1, <<"a">>) EXCEPT
          !.gtm_stages = [i \in DOMAIN stages |-> [stages[i] EXCEPT !.id = i]],
          !.tasks = tasks] :
        stages \in SeqsUpTo(StageInputs, MaxStages), tasks \in TaskInputs }

MaxNames == 3

\* a name of n letters
LongName(n) == [i \in 1..n |-> "b"]

\* the project names of the exported lists: short ones that sanitize to the
\* same text or to another's suffixed form, the empty name, and names one
\* short of, at and over the sheet-name limit
NameInputs ==
    { <<"a">>, <<"a", "?">>, <<"a", "_">>, <<"a", "_", "1">>, <<>>,
      LongName(EXCEL_SHEET_LIMIT - 1), LongName(EXCEL_SHEET_LIMIT),
      LongName(EXCEL_SHEET_LIMIT + 2) }

\* the lists passed to export_all_characteristics: projects with these
\* names and the ids 1, 2, .., with no filter or with a filter on two ids
NamedProjectLists ==
    { [projects |-> [i \in DOMAIN names |-> Project(i, <<i>>, 1, names[i])],
       project_filter |-> project_filter] :
        names \in SeqsUpTo(NameInputs, MaxNames), project_filter \in {{}, {1, 3}} }

\* the values passed to _parse_bool: a missing value, the booleans, numbers,
\* the tokens of the source in lower and upper case and within blanks, and
\* texts that are no token
BoolInputs ==
    {NoneCell, BoolCell(TRUE), BoolCell(FALSE), IntCell(0), IntCell(1), IntCell(2)}
        \cup {StrCell(token) : token \in TrueTokens}
        \cup {StrCell(Upper(token)) : token \in TrueTokens}
        \cup {StrCell(<<" ">> \o token \o <<" ">>) : token \in TrueTokens}
        \cup {StrCell(text) :
                text \in {<<>>, <<" ">>, <<"0">>, <<"2">>, <<"n", "o">>, <<"n", "e", "t">>, <<"f", "a", "l", "s", "e">>,
                          <<"t", "r", "u">>, <<"y", "e", "s", "s">>, <<"o", " ", "n">>, <<"1", "1">>, <<"N", "o", "n", "e">>, <<"a">>}}

\* the projects handed to export_projects_to_excel: statuses, brands that
\* differ in letter case, launch dates before, at and after the range ends
\* and absent, a current stage and none, custom fields
MaxExported == 3

ListedProject(status, brand, current_gtm_stage_id, planned_launch, custom_fields) ==
    [Project(0, <<>>, 1, <<"a">>) EXCEPT
        !.status = status, !.brand = brand, !.market = StrCell(<<"a">>),
        !.current_gtm_stage_id = current_gtm_stage_id,
        !.planned_launch = planned_launch,
        !.custom_fields = custom_fields,
        !.gtm_stages = << GTMStage(5, <<"a">>, NoneCell, 0, "not_started", FALSE, <<>>) >>]

ListedProjects ==
    { ListedProject("in_progress", <<"a">>, 5, DateCell(2), <<>>),
      ListedProject("archived", <<"A">>, 5, DateCell(2), (<<"b">> :> StrCell(<<"a">>))),
      ListedProject("closed", <<"b">>, 0, DateCell(3), (<<"a">> :> IntCell(1))),
      ListedProject("in_progress", <<"A">>, 5, DateCell(1), <<>>),
      ListedProject("in_progress", <<"a">>, 6, NoneCell, <<>>) }

\* the arguments of one export of the project list
ProjectExports ==
    { [projects |-> [i \in DOMAIN listed |-> [listed[i] EXCEPT !.id = i, !.short_id = <<i>>]],
       groups |-> StoreFile.product_groups,
       statuses |-> statuses, include_archived |-> include_archived, brand |-> brand,
       current_stage_id |-> current_stage_id,
       planned_from |-> planned_from, planned_to |-> planned_to] :
        listed \in SeqsUpTo(ListedProjects, MaxExported),
        statuses \in {<<>>, <<{"in_progress", "archived"}>>},
        include_archived \in BOOLEAN,
        brand \in {NoneCell, StrCell(<<>>), StrCell(<<"a">>)},
        current_stage_id \in {0, 5},
        planned_from \in {NoneCell, DateCell(2)},
        planned_to \in {NoneCell, DateCell(2)} }

\* the fields of the stored items of the query scenarios: texts, numbers
\* and booleans as the test stores them, an item without "approved", and an
\* item with a null, a number and a boolean written as text
MaxItems == 3

FieldBags ==
    { (<<"c", "o", "l", "o", "r">> :> StrCell(<<"a">>)) @@ (<<"s", "i", "z", "e">> :> IntCell(1))
          @@ (<<"a", "p", "p", "r", "o", "v", "e", "d">> :> BoolCell(TRUE)) @@ (<<"n", "o", "t", "e">> :> StrCell(<<"a">>)),
      (<<"c", "o", "l", "o", "r">> :> StrCell(<<"b">>)) @@ (<<"s", "i", "z", "e">> :> IntCell(2))
          @@ (<<"a", "p", "p", "r", "o", "v", "e", "d">> :> BoolCell(FALSE)),
      (<<"c", "o", "l", "o", "r">> :> StrCell(<<"a">>)) @@ (<<"s", "i", "z", "e">> :> IntCell(3)),
      (<<"c", "o", "l", "o", "r">> :> NoneCell) @@ (<<"s", "i", "z", "e">> :> StrCell(<<"2">>))
          @@ (<<"a", "p", "p", "r", "o", "v", "e", "d">> :> StrCell(<<"y", "e", "s">>)) }

\* the store whose groups and projects carry these fields, item by item
StoreWith(bags) ==
    [product_groups |->
        [i \in DOMAIN bags |-> [ProductGroup(i, <<"a">>) EXCEPT !.extra_fields = bags[i]]],
     projects |->
        [i \in DOMAIN bags |->
            [Project(Len(bags) + i, <<i>>, i, <<"a">>) EXCEPT
                !.market = StrCell(<<"a">>), !.custom_fields = bags[i]]],
     next_project_short_id |-> Len(bags) + 1]

QueriedStores == {StoreWith(bags) : bags \in SeqsUpTo(FieldBags, MaxItems)}

\* the filters of the queries: each type with its criterion and without
MaxFilters == 2

SelectFilter(field_id, values) ==
    CustomFieldFilterRequest(field_id, "select", NoneCell, values, Absent, Absent,
                             Absent, Absent, Absent)
NumberFilter(field_id, value_from, value_to) ==
    CustomFieldFilterRequest(field_id, "number", NoneCell, <<>>, value_from, value_to,
                             Absent, Absent, Absent)
CheckboxFilter(field_id, bool_value) ==
    CustomFieldFilterRequest(field_id, "checkbox", NoneCell, <<>>, Absent, Absent,
                             bool_value, Absent, Absent)

FilterInputs ==
    { SelectFilter(<<"c", "o", "l", "o", "r">>, << <<"a">> >>),
      SelectFilter(<<"c", "o", "l", "o", "r">>, << <<"a">>, <<"b">> >>),
      SelectFilter(<<"c", "o", "l", "o", "r">>, <<>>),
      NumberFilter(<<"s", "i", "z", "e">>, Some(2), Some(3)),
      NumberFilter(<<"s", "i", "z", "e">>, Some(2), Absent),
      NumberFilter(<<"s", "i", "z", "e">>, Absent, Absent),
      CheckboxFilter(<<"a", "p", "p", "r", "o", "v", "e", "d">>, Some(TRUE)),
      CheckboxFilter(<<"a", "p", "p", "r", "o", "v", "e", "d">>, Some(FALSE)),
      CheckboxFilter(<<"a", "p", "p", "r", "o", "v", "e", "d">>, Absent) }

\* a query on a store: the store the repository holds, and the filters
Queries ==
    { [store |-> st, filters |-> filters] :
        st \in QueriedStores, filters \in SeqsUpTo(FilterInputs, MaxFilters) }

\* a call: the function and its argument
Call(op, arg) == [op |-> op, arg |-> arg]

CallRequests ==
    {Call("export_gtm_stages_to_excel", project) : project \in ExportedProjects}
        \cup {Call("export_all_characteristics", arg) : arg \in NamedProjectLists}
        \cup {Call("_parse_bool", value) : value \in BoolInputs}
        \cup {Call("export_projects_to_excel", arg) : arg \in ProjectExports}
        \cup {Call(op, arg) : op \in {"list_projects", "list_groups"}, arg \in Queries}
        \cup {Call(op, [store |-> st]) :
                 op \in {"list_project_filter_meta", "list_group_filter_meta"},
                 st \in QueriedStores}

\* the file the repository of a call is opened on
StoreOfCall(r) == IF "store" \in DOMAIN r.arg THEN r.arg.store ELSE StoreFile

\* the record of a call: the function, its argument, what it returned and,
\* for an exporter, what an importer made of the exported workbook
Returned(op, arg, result, imported) ==
    [op |-> op, arg |-> arg, result |-> result, imported |-> imported]

InitCall ==
    /\ \E r \in CallRequests :
           /\ request = <<r>>
           /\ store = open_repository(StoreOfCall(r))
           /\ disk = save(StoreOfCall(r))
    /\ nextUuid = FirstUuid
    /\ last = Called("init", {}, <<>>, "none")

\* export_gtm_stages_to_excel(project), and import_gtm_stages_from_excel of
\* the bytes it returns
ExportGtmStages ==
    /\ request # <<>> /\ request[1].op = "export_gtm_stages_to_excel"
    /\ \E content \in {export_gtm_stages_to_excel(request[1].arg)} :
           last' = Returned(request[1].op, request[1].arg, content,
                            import_gtm_stages_from_excel(content, nextUuid))
    /\ request' = <<>>
    /\ UNCHANGED <<store, disk, nextUuid>>

\* export_all_characteristics(projects, groups, project_filter)
ExportAllCharacteristics ==
    /\ request # <<>> /\ request[1].op = "export_all_characteristics"
    /\ last' = Returned(request[1].op, request[1].arg,
                        export_all_characteristics(request[1].arg.projects,
                                                   request[1].arg.project_filter),
                        <<>>)
    /\ request' = <<>>
    /\ UNCHANGED <<store, disk, nextUuid>>

\* _parse_bool(value)
ParseBool ==
    /\ request # <<>> /\ request[1].op = "_parse_bool"
    /\ last' = Returned(request[1].op, request[1].arg, parse_bool(request[1].arg), <<>>)
    /\ request' = <<>>
    /\ UNCHANGED <<store, disk, nextUuid>>

\* export_projects_to_excel(projects=..., groups=..., statuses=..., ...)
ExportProjects ==
    /\ request # <<>> /\ request[1].op = "export_projects_to_excel"
    /\ \E r \in {export_projects_to_excel(
                     request[1].arg.projects, request[1].arg.groups,
                     request[1].arg.statuses, request[1].arg.include_archived,
                     request[1].arg.brand, request[1].arg.current_stage_id,
                     request[1].arg.planned_from, request[1].arg.planned_to)} :
           last' = Returned(request[1].op, request[1].arg, r.content,
                            [projects |-> r.projects, groups |-> r.groups])
    /\ request' = <<>>
    /\ UNCHANGED <<store, disk, nextUuid>>

\* LocalRepository.list_projects(filters=...)
ListProjects ==
    /\ request # <<>> /\ request[1].op = "list_projects"
    /\ last' = Returned(request[1].op, request[1].arg,
                        list_projects(store, request[1].arg.filters), <<>>)
    /\ request' = <<>>
    /\ UNCHANGED <<store, disk, nextUuid>>

\* LocalRepository.list_groups(filters=...)
ListGroups ==
    /\ request # <<>> /\ request[1].op = "list_groups"
    /\ last' = Returned(request[1].op, request[1].arg,
                        list_groups(store, request[1].arg.filters), <<>>)
    /\ request' = <<>>
    /\ UNCHANGED <<store, disk, nextUuid>>

\* LocalRepository.list_project_filter_meta()
ListProjectFilterMeta ==
    /\ request # <<>> /\ request[1].op = "list_project_filter_meta"
    /\ last' = Returned(request[1].op, request[1].arg,
                        list_project_filter_meta(store), <<>>)
    /\ request' = <<>>
    /\ UNCHANGED <<store, disk, nextUuid>>

\* LocalRepository.list_group_filter_meta()
ListGroupFilterMeta ==
    /\ request # <<>> /\ request[1].op = "list_group_filter_meta"
    /\ last' = Returned(request[1].op, request[1].arg,
                        list_group_filter_meta(store), <<>>)
    /\ request' = <<>>
    /\ UNCHANGED <<store, disk, nextUuid>>

NextCall ==
    \/ ExportGtmStages
    \/ ExportAllCharacteristics
    \/ ParseBool
    \/ ExportProjects
    \/ ListProjects
    \/ ListGroups
    \/ ListProjectFilterMeta
    \/ ListGroupFilterMeta

SpecCall == InitCall /\ [][NextCall]_vars

(***************************************************************************)
(* Properties of the exporters, the codec functions and the queries, over   *)
(* Scenario SpecCall.                                                       *)
(***************************************************************************)
GtmRoundTrip == last.op = "export_gtm_stages_to_excel"

\* the title is the key of the stage within its project: not empty, and no
\* other stage has it, letter case aside
TitlesAreKeys(stages) ==
    /\ \A i \in DOMAIN stages : stages[i].title # <<>>
    /\ \A i, j \in DOMAIN stages :
           Lower(stages[i].title) = Lower(stages[j].title) => i = j

\* the titles and done flags of a checklist, in the order of its items
ChecklistSequence(checklist) ==
    LET items == StableSort(checklist, OrderKeys(checklist))
    IN  [i \in DOMAIN items |-> <<items[i].title, items[i].done>>]

\* the imported stage has the fields of the exported one
SameStage(exported, imported) ==
    /\ imported.title = exported.title
    /\ imported.order = exported.order
    /\ imported.status = exported.status
    /\ imported.planned_start = exported.planned_start
    /\ imported.planned_end = exported.planned_end
    /\ imported.risk_flag = exported.risk_flag
    /\ ChecklistSequence(imported.checklist) = ChecklistSequence(exported.checklist)

\* the import of the exported sheet returns, without errors, the stages of
\* the project, field by field
StagesRoundTrip ==
    /\ last.imported.exc = "none"
    /\ last.imported.errors = <<>>
    /\ Len(last.imported.stages) = Len(last.arg.gtm_stages)
    /\ \A i \in DOMAIN last.imported.stages :
           SameStage(ordered_stages(last.arg)[i], last.imported.stages[i])

\* C12 as stated: for every project whose stages are valid (each title
\* present and the key of its stage), importing the sheet produced by
\* export_gtm_stages_to_excel returns, with no errors, one stage per
\* exported stage with identical title, order, status, planned_start,
\* planned_end and risk_flag, and a checklist with the same item titles and
\* done flags in the same sequence.
C12_StagesRoundTrip ==
    (GtmRoundTrip /\ TitlesAreKeys(last.arg.gtm_stages)) => StagesRoundTrip

\* a text with no blank at either end
Trimmed(s) == Strip(s) = s

\* the stage titles and the checklist item titles are texts the sheet can
\* carry: no blank at either end and, within an item, no separator
PlainTexts(stages) ==
    \A i \in DOMAIN stages :
        /\ Trimmed(stages[i].title)
        /\ \A k \in DOMAIN stages[i].checklist :
               /\ Trimmed(stages[i].checklist[k].title)
               /\ \A c \in DOMAIN stages[i].checklist[k].title :
                      stages[i].checklist[k].title[c] # ";"

\* C12, amended: for every project whose stage titles are non-empty, have
\* no surrounding whitespace and are pairwise distinct ignoring case, and
\* whose checklist item titles have no surrounding whitespace and contain
\* no ';', importing the sheet produced by export_gtm_stages_to_excel
\* returns, with no errors, one stage per exported stage with identical
\* title, order, status, planned_start, planned_end and risk_flag, and a
\* checklist with the same item titles and done flags in the sequence of
\* the items' order.
C12_PlainStagesRoundTrip ==
    (GtmRoundTrip /\ TitlesAreKeys(last.arg.gtm_stages)
                  /\ PlainTexts(last.arg.gtm_stages)) => StagesRoundTrip

\* two stages, one with dates, a risk flag and a checklist kept out of
\* order, exported over more rows than stages, come back as they were
C12_Witness ==
    /\ GtmRoundTrip
    /\ TitlesAreKeys(last.arg.gtm_stages) /\ PlainTexts(last.arg.gtm_stages)
    /\ Len(last.arg.gtm_stages) = 2
    /\ Len(last.result.active.rows) > 2
    /\ \E i \in DOMAIN last.arg.gtm_stages :
           /\ Len(last.arg.gtm_stages[i].checklist) = 2
           /\ last.arg.gtm_stages[i].checklist[1].order
                  > last.arg.gtm_stages[i].checklist[2].order
    /\ \E i \in DOMAIN last.arg.gtm_stages :
           last.arg.gtm_stages[i].risk_flag
           /\ last.arg.gtm_stages[i].planned_start.t = "date"
    /\ StagesRoundTrip

SheetNamesCall == last.op = "export_all_characteristics"

\* the names of the projects the filter lets through, in order
ExportedNames ==
    LET kept == SelectSeq(last.arg.projects,
                          LAMBDA p : last.arg.project_filter = {}
                                     \/ p.id \in last.arg.project_filter)
    IN  [i \in DOMAIN kept |-> kept[i].name]

\* the name after sanitization and truncation
Base(name) == TrimmedName(IF name # <<>> THEN name ELSE DefaultSheetName)

\* the text is "_" and the digits of a positive number
IsSuffix(text) ==
    /\ Len(text) >= 2 /\ text[1] = "_"
    /\ \A i \in 2..Len(text) : IsDigit(text[i])
    /\ text[2] # "0"

\* one sheet name per exported project, pairwise distinct and within the limit
DistinctWithinLimit ==
    /\ Len(last.result) = Len(ExportedNames)
    /\ \A i, j \in DOMAIN last.result : last.result[i] = last.result[j] => i = j
    /\ \A i \in DOMAIN last.result : Len(last.result[i]) <= EXCEL_SHEET_LIMIT

\* C13 as stated: the sheet names returned for the exported projects are
\* pairwise distinct and each at most 31 characters long, and two names that
\* are identical after sanitization and truncation differ only by an
\* appended numeric suffix: each is that text or that text followed by _1,
\* _2, ...
C13_NamesDifferBySuffix ==
    SheetNamesCall =>
        /\ DistinctWithinLimit
        /\ \A i, j \in DOMAIN last.result :
               (i # j /\ Base(ExportedNames[i]) = Base(ExportedNames[j])) =>
                   \A k \in {i, j} :
                       \/ last.result[k] = Base(ExportedNames[k])
                       \/ /\ StartsWith(last.result[k], Base(ExportedNames[k]))
                          /\ IsSuffix(SubSeq(last.result[k],
                                             Len(Base(ExportedNames[k])) + 1,
                                             Len(last.result[k])))

\* the name is the text, or the text cut short enough to stay within the
\* limit and followed by a numeric suffix
BaseOrSuffixed(name, text) ==
    \/ name = text
    \/ \E n \in 2..Len(name) :
           LET suffix_text == SubSeq(name, Len(name) - n + 1, Len(name))
               keep == IF Len(text) < EXCEL_SHEET_LIMIT - n
                       THEN Len(text) ELSE EXCEL_SHEET_LIMIT - n
           IN  /\ IsSuffix(suffix_text)
               /\ SubSeq(name, 1, Len(name) - n) = SubSeq(text, 1, keep)

\* C13, amended: the sheet names returned for the exported projects are
\* pairwise distinct and each at most 31 characters long, and of two names
\* that are identical after sanitization and truncation each is that text,
\* or that text cut to at most 31 characters less the suffix's length and
\* followed by a numeric suffix (_1, _2, ...).
C13_NamesDistinctWithinLimit ==
    SheetNamesCall =>
        /\ DistinctWithinLimit
        /\ \A i, j \in DOMAIN last.result :
               (i # j /\ Base(ExportedNames[i]) = Base(ExportedNames[j])) =>
                   \A k \in {i, j} :
                       BaseOrSuffixed(last.result[k], Base(ExportedNames[k]))

\* three projects whose names are the same after truncation, at the limit:
\* the later names are cut to make room for their suffixes
C13_Witness ==
    /\ SheetNamesCall
    /\ Len(last.result) = 3
    /\ \A i \in DOMAIN last.result :
           /\ Base(ExportedNames[i]) = LongName(EXCEL_SHEET_LIMIT)
           /\ Len(last.result[i]) = EXCEL_SHEET_LIMIT
    /\ \A i, j \in DOMAIN last.result : last.result[i] = last.result[j] => i = j
    /\ \E i \in DOMAIN last.arg.projects :
           Len(last.arg.projects[i].name) > EXCEL_SHEET_LIMIT

ParseBoolCall == last.op = "_parse_bool"

\* the input as text, trimmed and in lower case
BoolText == Lower(Strip(StrOf(last.arg)))

\* C14 as stated: _parse_bool returns true exactly when the input, trimmed
\* and compared case-insensitively, is one of "1", "true", "yes", "on", "da"
\* (the Cyrillic token); every other input, including the empty string and a
\* missing value, returns false.
C14_FiveTokens ==
    ParseBoolCall =>
        (last.result <=> BoolText \in {<<"1">>, <<"t", "r", "u", "e">>, <<"y", "e", "s">>, <<"o", "n">>, <<"d", "a">>})

\* C14, amended: _parse_bool returns true exactly when the input, trimmed
\* and compared case-insensitively, is one of "1", "true", "yes", "on",
\* "da", "y", "oui"; every other input, including the empty string and a
\* missing value, returns false.
C14_SevenTokens ==
    ParseBoolCall =>
        (last.result <=> BoolText \in {<<"1">>, <<"t", "r", "u", "e">>, <<"y", "e", "s">>, <<"o", "n">>, <<"d", "a">>,
                                       <<"y">>, <<"o", "u", "i">>})

\* a token of more than one letter within blanks is true
C14_Witness ==
    /\ ParseBoolCall
    /\ last.arg.t = "str" /\ last.arg.s # BoolText
    /\ Strip(last.arg.s) # last.arg.s /\ Len(BoolText) > 1
    /\ last.result

\* the sheet an error speaks of
SheetNamedBy(error) ==
    IF error.msg \in {"task: stage not found", "task: bad task order",
                      "task: empty task title"}
    THEN "tasks"
    ELSE IF error.msg \in {"subtask: stage not found", "subtask: bad task order",
                           "subtask: empty title"}
    THEN "subtasks"
    ELSE "active"

\* a sheet without the data rows that errors speaking of it name
WithoutRowsNamed(sheet, name, errors) ==
    LET named == {errors[i].row - 1 :
                     i \in {k \in DOMAIN errors : SheetNamedBy(errors[k]) = name}}
        kept  == InOrder(DOMAIN sheet.rows \ named)
    IN  Sheet(sheet.header, [i \in DOMAIN kept |-> sheet.rows[kept[i]]])

\* the upload without the data rows its import reported
WithoutFailingRows(content, errors) ==
    [readable |-> content.readable,
     active   |-> WithoutRowsNamed(content.active, "active", errors),
     tasks    |-> [i \in DOMAIN content.tasks |->
                      WithoutRowsNamed(content.tasks[i], "tasks", errors)],
     subtasks |-> [i \in DOMAIN content.subtasks |->
                      WithoutRowsNamed(content.subtasks[i], "subtasks", errors)]]

\* the upload passes the importer's checks of the file and its header, and
\* its first sheet has every column the importer reads
RowsAreRead ==
    /\ last.content.readable /\ last.content.active.header # <<>>
    /\ \/ GtmCall /\ {GtmKey(i) : i \in 1..Len(GtmHeaders)}
                         \subseteq DOMAIN header_map(last.content.active.header)
       \/ GtmCall /\ last.content \in LegacyUploads
       \/ ProjectsCall /\ {ProjectKey(i) : i \in 1..Len(ProjectHeaders)}
                              \subseteq DOMAIN header_map(last.content.active.header)
       \/ CharacteristicsCall
              /\ {CharKey(i) : i \in 1..Len(CharHeaders)}
                     \subseteq DOMAIN header_map(last.content.active.header)

\* C15: row errors accumulate and never abort the batch: in every import
\* path the import of a sheet whose rows are read returns; every error it
\* returns carries the sheet row number of one filled data row (first data
\* row = 2), one error per row; and the entities returned are those the
\* same upload yields without the rows the errors name.
C15_RowErrorsNeverAbort ==
    ((GtmCall \/ ProjectsCall \/ CharacteristicsCall) /\ RowsAreRead) =>
        /\ last.result.exc = "none"
        /\ \A i \in DOMAIN last.result.errors :
               LET error == last.result.errors[i]
               IN  /\ error.row >= 2
                   /\ error.row - 1 \in DOMAIN RowsNamedBy(last.content, error)
                   /\ ~AllNone(RowsNamedBy(last.content, error)[error.row - 1])
                   /\ \A j \in DOMAIN last.result.errors :
                          (last.result.errors[j].row = error.row
                           /\ SheetNamedBy(last.result.errors[j]) = SheetNamedBy(error))
                              => i = j
        /\ [last.result EXCEPT !.errors = <<>>]
               = Again(WithoutFailingRows(last.content, last.result.errors))

\* a status cell holds a value that is neither an alias nor an enum name
UnknownStatus(cell, aliases, members) ==
    /\ Truthy(cell)
    /\ Lower(Strip(StrOf(cell))) \notin DOMAIN aliases
    /\ Upper(Strip(StrOf(cell))) \notin DOMAIN members

\* the data rows of the combined sheet with the task title of row r under
\* the stage title of row r
TaskRowsLike(r) ==
    {q \in StageRows :
        /\ TitleKey(q) = TitleKey(r)
        /\ Lower(Strip(StrOf(GtmCell(q, 11)))) = Lower(Strip(StrOf(GtmCell(r, 11))))}

\* C16: an unrecognized status is a row error, not a silent default: a row
\* of the combined GTM sheet or of the project list whose stage-status,
\* task-status or project-status cell holds a value that is neither an
\* alias nor an enum name is reported with its row number, and no stage,
\* task or project is created from it.
C16_UnknownStatusIsRowError ==
    /\ SingleSheetReturned =>
           \A r \in StageRows :
               /\ UnknownStatus(GtmCell(r, 7), STATUS_ALIASES, StageStatusMembers) =>
                      /\ ErrorsAt(r) # {}
                      /\ {q \in StageRows : TitleKey(q) = TitleKey(r)} = {r}
                             => StagesOf(r) = {}
               /\ (Truthy(GtmCell(r, 11))
                   /\ UnknownStatus(GtmCell(r, 13), TASK_STATUS_ALIASES,
                                    TaskStatusMembers)) =>
                      /\ ErrorsAt(r) # {}
                      /\ TaskRowsLike(r) = {r} =>
                             ~\E t \in DOMAIN last.result.tasks :
                                 Lower(last.result.tasks[t].title)
                                     = Lower(Strip(StrOf(GtmCell(r, 11))))
    /\ ProjectsReturned =>
           \A r \in NamedRows :
               UnknownStatus(ProjectCell(r, 7), PROJECT_STATUS_ALIASES,
                             ProjectStatusMembers) =>
                   /\ ErrorsAt(r) # {}
                   /\ ~\E p \in DOMAIN last.result.projects :
                          last.result.projects[p].name = Strip(StrOf(ProjectCell(r, 3)))

ProjectsExported == last.op = "export_projects_to_excel"

\* project p passes the filters of the call, the brand filter counting as
\* supplied when supplied(brand) holds
PassesFilters(p, arg, brand_supplied) ==
    /\ arg.statuses # <<>> => p.status \in arg.statuses[1]
    /\ ~arg.include_archived => p.status # "archived"
    /\ brand_supplied => Lower(p.brand) = Lower(arg.brand.s)
    /\ arg.current_stage_id # 0 => p.current_gtm_stage_id = arg.current_stage_id
    /\ arg.planned_from.t # "none" =>
           (p.planned_launch.t # "none" /\ p.planned_launch.n >= arg.planned_from.n)
    /\ arg.planned_to.t # "none" =>
           (p.planned_launch.t # "none" /\ p.planned_launch.n <= arg.planned_to.n)

\* the sheet has one row for each project of kept, in that order, and the
\* call left the projects and the groups as they were passed
ExportsExactly(kept) ==
    /\ Len(last.result.active.rows) = Len(kept)
    /\ \A i \in DOMAIN kept :
           /\ last.result.active.rows[i][1] = StrCell(StrOfInt(kept[i].id))
           /\ last.result.active.rows[i][5] = StrCell(kept[i].brand)
           /\ last.result.active.rows[i][8] = kept[i].planned_launch
    /\ last.imported.projects = last.arg.projects
    /\ last.imported.groups = last.arg.groups

\* C17 as stated: export_projects_to_excel emits one row for exactly the
\* projects that satisfy every filter passed (status in the set, not
\* archived unless included, brand equal without regard to case, current
\* stage id equal, planned_launch within [planned_from, planned_to]), in the
\* order of the input list, and modifies no project and no group.
C17_RowsAreFilteredProjects ==
    ProjectsExported =>
        ExportsExactly(SelectSeq(last.arg.projects,
                                 LAMBDA p : PassesFilters(p, last.arg,
                                                          last.arg.brand.t # "none")))

\* C17: export_projects_to_excel emits one row for exactly the projects
\* that satisfy every filter passed, an empty brand filtering nothing, in
\* the order of the input list, and modifies no project and no group.
C17_RowsAreFilteredByNonEmptyBrand ==
    ProjectsExported =>
        ExportsExactly(SelectSeq(last.arg.projects,
                                 LAMBDA p : PassesFilters(p, last.arg,
                                                          /\ last.arg.brand.t # "none"
                                                          /\ last.arg.brand.s # <<>>)))

\* of three projects the export with a brand and a date range keeps two, in
\* their order: one whose brand differs from the filter in letter case, both
\* launched on the day that is either end of the range
C17_Witness ==
    /\ ProjectsExported
    /\ Len(last.arg.projects) = 3
    /\ Len(last.result.active.rows) = 2
    /\ last.arg.brand.t # "none" /\ last.arg.brand.s # <<>>
    /\ last.arg.planned_from.t # "none" /\ last.arg.planned_to.t # "none"
    /\ last.result.active.rows[1][5].s # last.arg.brand.s
    /\ last.result.active.rows[1][8] = last.arg.planned_from
    /\ last.result.active.rows[2][8] = last.arg.planned_to
    /\ last.result.active.rows[1][1] = StrCell(<<"1">>)
    /\ last.result.active.rows[2][1] = StrCell(<<"3">>)

\* the columns of the uploaded project list whose title starts with the
\* custom-field prefix, and the key such a column stands for
CustomFieldColumns ==
    {c \in DOMAIN last.content.active.header :
        StartsWith(header_row(last.content.active.header)[c], CUSTOM_FIELD_PREFIX)}
CustomFieldKey(c) ==
    SubSeq(header_row(last.content.active.header)[c], Len(CUSTOM_FIELD_PREFIX) + 1,
           Len(header_row(last.content.active.header)[c]))

\* every data row of the upload gave a project, the i-th row the i-th one
EveryRowImported ==
    /\ ProjectsReturned
    /\ Len(last.result.projects) = Len(last.content.active.rows)

\* C18: in import_projects_from_excel every column titled with the prefix
\* CF: gives the project of each row the entry (suffix of the title -> cell)
\* when the row's cell in it is not empty and no entry for that key when it
\* is empty, for each column by itself, also when two keys differ only in
\* letter case; no entry is null.
C18_CustomFieldPerColumn ==
    EveryRowImported =>
        \A r \in DOMAIN last.content.active.rows :
            LET fields == last.result.projects[r].custom_fields
                row    == last.content.active.rows[r]
            IN  /\ \A c \in CustomFieldColumns :
                       IF PresentCell(row[c])
                       THEN /\ CustomFieldKey(c) \in DOMAIN fields
                            /\ fields[CustomFieldKey(c)] = row[c]
                       ELSE CustomFieldKey(c) \notin DOMAIN fields
                /\ \A k \in DOMAIN fields : PresentCell(fields[k])

Queried == last.op \in {"list_projects", "list_groups"}

\* the stored items a query ranges over, and the custom fields of one
StoredItems ==
    IF last.op \in {"list_projects", "list_project_filter_meta"}
    THEN store.projects ELSE store.product_groups
FieldsOf(item) ==
    IF "custom_fields" \in DOMAIN item THEN item.custom_fields ELSE item.extra_fields

\* the number a field value stands for: a number, or a text of digits
NumbersOf(value) ==
    IF value.t = "int" THEN {value.n}
    ELSE IF value.t = "str" /\ IntParses(value.s) THEN {IntOfStr(value.s)}
    ELSE {}

\* an item with these fields satisfies the filter, as the claim words it
Satisfies(fields, flt) ==
    /\ flt.field_id \in DOMAIN fields
    /\ CASE flt.type = "select" ->
                /\ fields[flt.field_id].t # "none"
                /\ \E k \in DOMAIN flt.values : flt.values[k] = StrOf(fields[flt.field_id])
         [] flt.type = "number" ->
                \E n \in NumbersOf(fields[flt.field_id]) :
                    /\ flt.value_from # Absent => flt.value_from[1] <= n
                    /\ flt.value_to # Absent => n <= flt.value_to[1]
         [] flt.type = "checkbox" ->
                /\ flt.bool_value # Absent
                /\ normalize_bool(fields[flt.field_id]) = flt.bool_value

\* a filter that carries no criterion: no listed value, no bound, no boolean
Unset(flt) ==
    CASE flt.type = "select"   -> flt.values = <<>>
      [] flt.type = "number"   -> flt.value_from = Absent /\ flt.value_to = Absent
      [] flt.type = "checkbox" -> flt.bool_value = Absent

\* C19 as stated: list_projects and list_groups with a list of custom-field
\* filters return exactly the stored items that satisfy every filter of the
\* list, in store order: a select filter when the value is one of the listed
\* values, a number filter when the value lies within [value_from, value_to],
\* a checkbox filter when the field normalizes to the requested boolean; an
\* item lacking the field does not match.
C19_ItemsSatisfyingEveryFilter ==
    Queried =>
        last.result = SelectSeq(StoredItems,
                                LAMBDA item :
                                    \A k \in DOMAIN last.arg.filters :
                                        Satisfies(FieldsOf(item), last.arg.filters[k]))

\* C19: the same, a filter that carries no criterion being satisfied by
\* every item.
C19_ItemsSatisfyingEverySetFilter ==
    Queried =>
        last.result = SelectSeq(StoredItems,
                                LAMBDA item :
                                    \A k \in DOMAIN last.arg.filters :
                                        \/ Unset(last.arg.filters[k])
                                        \/ Satisfies(FieldsOf(item), last.arg.filters[k]))

\* the query of the test: of three items a select filter and a number filter
\* with both bounds leave the third alone, whose number is the upper bound
C19_Witness ==
    /\ Queried
    /\ Len(StoredItems) = 3
    /\ Len(last.arg.filters) = 2
    /\ last.arg.filters[1].type = "select" /\ ~Unset(last.arg.filters[1])
    /\ last.arg.filters[2].type = "number"
    /\ last.arg.filters[2].value_from # Absent /\ last.arg.filters[2].value_to # Absent
    /\ last.result = <<StoredItems[3]>>
    /\ Satisfies(FieldsOf(StoredItems[1]), last.arg.filters[1])
    /\ ~Satisfies(FieldsOf(StoredItems[1]), last.arg.filters[2])
    /\ FieldsOf(StoredItems[3])[last.arg.filters[2].field_id]
           = IntCell(last.arg.filters[2].value_to[1])

MetaListed == last.op \in {"list_project_filter_meta", "list_group_filter_meta"}

\* the stored items whose custom fields have the key
HoldersOf(key) == {i \in DOMAIN StoredItems : key \in DOMAIN FieldsOf(StoredItems[i])}

\* C20: list_project_filter_meta and list_group_filter_meta hold an entry
\* for a custom-field key if and only if the key occurs in the custom fields
\* of more than one stored entity; a key of a single entity is omitted.
C20_MetaOnlyForReusedKeys ==
    MetaListed =>
        /\ {last.result[k].field_id : k \in DOMAIN last.result}
               = {key \in UNION {DOMAIN FieldsOf(StoredItems[i]) : i \in DOMAIN StoredItems} :
                     Cardinality(HoldersOf(key)) > 1}
        /\ \A k, m \in DOMAIN last.result :
               last.result[k].field_id = last.result[m].field_id => k = m

\* of three entities one alone has "note", which is omitted, and two have
\* "approved", which is listed
C20_Witness ==
    /\ MetaListed
    /\ Len(StoredItems) = 3
    /\ \E key \in DOMAIN FieldsOf(StoredItems[1]) :
           /\ HoldersOf(key) = {1}
           /\ \A k \in DOMAIN last.result : last.result[k].field_id # key
    /\ \E k \in DOMAIN last.result :
           Cardinality(HoldersOf(last.result[k].field_id)) = 2

\* a GTM import that returned, from a legacy workbook with a sheet of tasks
LegacyTasksReturned ==
    /\ GtmCall /\ last.content.readable
    /\ last.content.active.header = HeaderCells(LegacyStageHeaders)
    /\ last.content.tasks # <<>>
    /\ last.result.exc = "none"

\* the filled rows of the legacy sheet of tasks, and the stage cell of one
LegacyTaskRowsFilled ==
    {r \in DOMAIN last.content.tasks[1].rows : ~AllNone(last.content.tasks[1].rows[r])}
LegacyStageCell(r) ==
    last.content.tasks[1].rows[r][header_map(last.content.tasks[1].header)[KeyStage]]

\* the returned errors that name row r of the sheet of tasks
TaskErrorsAt(r) ==
    {i \in DOMAIN last.result.errors :
        /\ last.result.errors[i].row = r + 1
        /\ SheetNamedBy(last.result.errors[i]) = "tasks"}

\* the stage name of tasks row r is the title of a returned stage, blanks
\* around it and letter case aside
NamesReturnedStage(r) ==
    \E k \in DOMAIN last.result.stages :
        Lower(Strip(last.result.stages[k].title)) = Lower(Strip(StrOf(LegacyStageCell(r))))

LegacyCall ==
    /\ GtmCall /\ last.content.readable
    /\ last.content.active.header = HeaderCells(LegacyStageHeaders)

\* the order cell of a row holds an integer or a text that int() reads
OrderParses(cell) == PresentCell(cell) /\ IntOk(cell)

\* the stage rows of the single sheet before row r whose title is new there
StagesBefore(r) == {f \in StageRows : f < r /\ FirstRowOf(f) = f}

\* C23: an imported stage's order is the integer of its order cell when the
\* cell is present and parseable, and otherwise (no order column, empty
\* cell, unparseable cell) the number of stages created before it in the
\* import, without an error or an exception; the returned stages are sorted
\* by order, stages of equal order in the sequence of their rows.
C23_StageOrderDefaultsToArrival ==
    /\ (GtmCall /\ last.content.readable
        /\ DOMAIN header_map(last.content.active.header)
               = {GtmKey(i) : i \in 2..Len(GtmHeaders)}
        /\ StageRows # {}) =>
           last.result.exc # "TypeError"
    /\ (SingleSheetReturned
        /\ GtmKey(1) \in DOMAIN header_map(last.content.active.header)) =>
           \A r \in StageRows :
               FirstRowOf(r) = r =>
                   \A k \in StagesOf(r) :
                       last.result.stages[k].order
                           = IF OrderParses(GtmCell(r, 1)) THEN IntOf(GtmCell(r, 1))
                             ELSE Cardinality(StagesBefore(r))
    /\ (LegacyCall /\ last.result.exc = "none") =>
           \A r \in DOMAIN last.content.active.rows :
               LET row == last.content.active.rows[r]
               IN  (Truthy(row[1]) /\ row[2].t # "none" /\ ~OrderParses(row[2])) =>
                       ErrorsAt(r) = {}
    /\ (GtmCall /\ last.result.exc = "none") =>
           \A i, j \in DOMAIN last.result.stages :
               i < j => \/ last.result.stages[i].order < last.result.stages[j].order
                        \/ /\ last.result.stages[i].order = last.result.stages[j].order
                           /\ last.result.stages[i].id < last.result.stages[j].id

\* the first data row that creates the returned section k: a row with a
\* section title and a label whose title normalizes to the section's
CreatingRow(k) ==
    LET rows == last.content.active.rows
        hits == {r \in DOMAIN rows :
                    /\ ~AllNone(rows[r])
                    /\ CharCell(r, 1).t = "str" /\ Truthy(CharCell(r, 1))
                    /\ Truthy(CharCell(r, 3)) \/ Truthy(CharCell(r, 4))
                    /\ Lower(Strip(CharCell(r, 1).s))
                           = Lower(Strip(last.result.sections[k].title))}
    IN  CHOOSE r \in hits : \A q \in hits : r <= q

\* the section order cell of a data row, None when the sheet has no such column
SectionOrderCell(r) ==
    IF CharKey(2) \in DOMAIN header_map(last.content.active.header)
    THEN CharCell(r, 2) ELSE NoneCell

\* the returned sections the import created
CreatedSections ==
    {k \in DOMAIN last.result.sections :
        \A s \in DOMAIN SectionsBefore :
            SectionsBefore[s].id # last.result.sections[k].id}

\* C24: in a characteristics import a section created for an unmatched title
\* without a parseable explicit order has an order strictly greater than
\* that of every section present when it was created (the project's and the
\* ones created earlier in the import, explicit orders included), and a
\* parseable explicit order is the section's order.
C24_CreatedSectionOrderedLast ==
    (CharSheetAccepted /\ last.result.exc = "none") =>
        \A k \in CreatedSections :
            LET section == last.result.sections[k]
                cell == SectionOrderCell(CreatingRow(k))
            IN  IF OrderParses(cell)
                THEN section.order = IntOf(cell)
                ELSE \A j \in DOMAIN last.result.sections :
                         last.result.sections[j].id < section.id =>
                             last.result.sections[j].order < section.order

\* the call exported the GTM sheet of a project
GtmExported == last.op = "export_gtm_stages_to_excel"

\* the data rows of the exported GTM sheet
ExportedRows == last.result.active.rows

\* the tasks of the exported project attached to the stage
TasksUnder(stage) ==
    {t \in DOMAIN last.arg.tasks : last.arg.tasks[t].gtm_stage_id = stage.id}

\* the exported rows that carry the stage's order and title
RowsOfStage(stage) ==
    {r \in DOMAIN ExportedRows :
        /\ ExportedRows[r][1] = IntCell(stage.order)
        /\ ExportedRows[r][2] = StrCell(stage.title)}

\* the exported rows of the task t of the stage
RowsOfTask(stage, t) ==
    {r \in RowsOfStage(stage) : ExportedRows[r][11] = StrCell(last.arg.tasks[t].title)}

\* the stages of the exported project that look like the stage on a row
StagesLike(stage) ==
    {s \in DOMAIN last.arg.gtm_stages :
        /\ last.arg.gtm_stages[s].order = stage.order
        /\ last.arg.gtm_stages[s].title = stage.title}

\* the stage and the task are told apart on the sheet: no other stage has
\* the stage's order and title, no other task of the stage the task's title
ToldApart(s, t) ==
    /\ StagesLike(last.arg.gtm_stages[s]) = {s}
    /\ \A u \in TasksUnder(last.arg.gtm_stages[s]) :
           last.arg.tasks[u].title = last.arg.tasks[t].title => u = t

\* the i-th of a set of row numbers
IthRow(R, i) == CHOOSE r \in R : Cardinality({q \in R : q < r}) = i - 1

\* the number of rows the fan-out gives a task
FanOut(task) ==
    IF Len(task.subtasks) >= Len(task.comments)
    THEN (IF Len(task.subtasks) = 0 THEN 1 ELSE Len(task.subtasks))
    ELSE Len(task.comments)

RECURSIVE SumOver(_, _)
\* the sum of f over the set S
SumOver(f, S) ==
    IF S = {} THEN 0
    ELSE LET x == CHOOSE y \in S : TRUE IN f[x] + SumOver(f, S \ {x})

\* C25: the combined GTM sheet is a fan-out join.  A stage without tasks
\* has one placeholder row; a task of a stage has max(1, #subtasks,
\* #comments) rows, the i-th carrying the task's i-th subtask by order and
\* its i-th comment where they exist and empty cells where they do not; so
\* each subtask and each comment of a task of a stage is on exactly one row.
C25_GtmSheetIsFanOutJoin ==
    GtmExported =>
        LET stages == last.arg.gtm_stages
            tasks  == last.arg.tasks
        IN  /\ Len(ExportedRows)
                   = SumOver([s \in DOMAIN stages |->
                                 IF TasksUnder(stages[s]) = {} THEN 1
                                 ELSE SumOver([t \in DOMAIN tasks |-> FanOut(tasks[t])],
                                              TasksUnder(stages[s]))],
                             DOMAIN stages)
            /\ \A s \in DOMAIN stages :
                   TasksUnder(stages[s]) = {} =>
                       Cardinality({r \in RowsOfStage(stages[s]) :
                                       ExportedRows[r][11] = NoneCell})
                           = Cardinality({q \in StagesLike(stages[s]) :
                                             TasksUnder(stages[q]) = {}})
            /\ \A s \in DOMAIN stages : \A t \in TasksUnder(stages[s]) :
                   ToldApart(s, t) =>
                       LET R    == RowsOfTask(stages[s], t)
                           subs == tasks[t].subtasks
                       IN  /\ Cardinality(R) = FanOut(tasks[t])
                           /\ \A i \in 1..Cardinality(R) :
                                  LET row == ExportedRows[IthRow(R, i)]
                                      nth == {u \in DOMAIN subs :
                                                Cardinality({v \in DOMAIN subs :
                                                    subs[v].order < subs[u].order}) = i - 1}
                                  IN  /\ IF i <= Len(subs)
                                         THEN \E u \in nth :
                                                  /\ row[17] = IntCell(subs[u].order)
                                                  /\ row[18] = StrCell(subs[u].title)
                                         ELSE row[17] = NoneCell /\ row[18] = NoneCell
                                      /\ IF i <= Len(tasks[t].comments)
                                         THEN row[20] = StrCell(tasks[t].comments[i].text)
                                         ELSE row[20] = NoneCell /\ row[21] = NoneCell

\* a project is exported whose stage has a task with two subtasks and one
\* comment: the task has two rows, the second without a comment
C25_Witness ==
    /\ GtmExported
    /\ \E s \in DOMAIN last.arg.gtm_stages : \E t \in TasksUnder(last.arg.gtm_stages[s]) :
           /\ ToldApart(s, t)
           /\ Len(last.arg.tasks[t].subtasks) = 2 /\ Len(last.arg.tasks[t].comments) = 1
           /\ Cardinality(RowsOfTask(last.arg.gtm_stages[s], t)) = 2
    /\ \E s \in DOMAIN last.arg.gtm_stages : TasksUnder(last.arg.gtm_stages[s]) = {}

(***************************************************************************)
(* LocalRepository: product groups and the project history (storage.py),   *)
(* and the group and project handlers of main.py.  A handler is a function  *)
(* of the store like a repository method; the exception it returns is the  *)
(* status of the HTTPException it raises.                                  *)
(***************************************************************************)
\* LocalRepository.get_group: the position of the first group with the id,
\* 0 for None
get_group(st, group_id) ==
    LET hits == {i \in DOMAIN st.product_groups : st.product_groups[i].id = group_id}
    IN  IF hits = {} THEN 0 ELSE CHOOSE i \in hits : \A j \in hits : i <= j

\* LocalRepository.add_group
add_group(st, group) ==
    Ret([st EXCEPT !.product_groups = Append(@, group)], "none", TRUE)

\* LocalRepository.update_group
update_group(st, group_id, updated) ==
    LET idx == get_group(st, group_id)
    IN  IF idx = 0 THEN Ret(st, "KeyError", FALSE)
        ELSE Ret([st EXCEPT !.product_groups[idx] = updated], "none", TRUE)

\* LocalRepository.delete_group
delete_group(st, group_id) ==
    LET idx == get_group(st, group_id)
    IN  IF idx = 0 THEN Ret(st, "KeyError", FALSE)
        ELSE Ret([st EXCEPT !.product_groups = RemoveAt(@, idx)], "none", TRUE)

\* a repository in which no group is ever in use
group_never_in_use(st, group_id) == FALSE

\* LocalRepository.has_projects_for_group
has_projects_for_group(st, group_id) ==
    \E i \in DOMAIN st.projects : st.projects[i].group_id = group_id

\* HistoryEvent(summary=...): the id is uuid4()
HistoryEvent(id, summary) == [id |-> id, summary |-> summary]

\* LocalRepository.add_history_event
add_history_event(st, project_id, event) ==
    LET idx == FirstIndex(st.projects, project_id)
    IN  IF idx = 0 THEN Ret(st, "KeyError", FALSE)
        ELSE Ret([st EXCEPT !.projects[idx].history = <<event>> \o @], "none", TRUE)

\* main.log_event: the KeyError of a missing project is swallowed
log_event(st, project_id, summary, uuid) ==
    LET r == add_history_event(st, project_id, HistoryEvent(uuid, summary))
    IN  IF r.exc = "KeyError" THEN Ret(st, "none", FALSE) ELSE r

\* main.create_group
create_group(st, group) == add_group(st, group)

\* main.update_group
main_update_group(st, group_id, group) ==
    IF get_group(st, group_id) = 0 THEN Ret(st, "HTTP 404", FALSE)
    ELSE update_group(st, group_id, [group EXCEPT !.id = group_id])

\* main.delete_group
main_delete_group(st, group_id) ==
    IF has_projects_for_group(st, group_id) THEN Ret(st, "HTTP 400", FALSE)
    ELSE LET r == delete_group(st, group_id)
         IN  IF r.exc = "KeyError" THEN Ret(st, "HTTP 404", FALSE) ELSE r

\* main.create_project: the created project is logged in its history
create_project(st, project, uuid) ==
    IF get_group(st, project.group_id) = 0 THEN Ret(st, "HTTP 400", FALSE)
    ELSE log_event(add_project(st, project).store, project.id, "created", uuid)

\* main.update_project: a change of status is logged
main_update_project(st, project_id, project, uuid) ==
    LET existing == get_project(st, project_id)
    IN  IF existing = 0 THEN Ret(st, "HTTP 404", FALSE)
        ELSE IF get_group(st, project.group_id) = 0 THEN Ret(st, "HTTP 400", FALSE)
        ELSE LET r == update_project(st, project_id, [project EXCEPT !.id = project_id])
             IN  IF st.projects[existing].status # r.store.projects[existing].status
                 THEN Ret(log_event(r.store, project_id, "status", uuid).store,
                          "none", TRUE)
                 ELSE r

\* main.delete_project
main_delete_project(st, project_id) ==
    LET r == delete_project(st, project_id)
    IN  IF r.exc = "KeyError" THEN Ret(st, "HTTP 404", FALSE) ELSE r

(***************************************************************************)
(* Scenario SpecHttp: requests to the group and project endpoints, one at   *)
(* a time and in any order, on a repository opened without a store file.   *)
(***************************************************************************)
MaxGroups == 2
MaxHistory == 2
MaxEvents == 2

\* the group ids of the requests: MaxGroups ids that groups take and one
\* more that projects may name
GroupIds == 1..(MaxGroups + 1)

\* the group payloads: one per id, and one with another name
GroupPayloads ==
    {ProductGroup(id, <<"a">>) : id \in 1..MaxGroups} \cup {ProductGroup(1, <<"b">>)}

HttpProjectIds == (MaxGroups + 2)..(MaxGroups + 1 + MaxProjects)

ProjectPayloads ==
    {[Project(id, <<>>, group_id, <<"a">>) EXCEPT !.status = status] :
        id \in HttpProjectIds, group_id \in GroupIds,
        status \in {"in_progress", "closed"}}

InBoundsHttp(st) ==
    /\ Len(st.product_groups) <= MaxGroups
    /\ Len(st.projects) <= MaxProjects
    /\ st.next_project_short_id <= MaxShortId
    /\ \A i \in DOMAIN st.projects : Len(st.projects[i].history) <= MaxHistory
    /\ \A i \in DOMAIN st.projects : \A e \in DOMAIN st.projects[i].history :
           st.projects[i].history[e].id < FirstUuid + MaxEvents

InitHttp ==
    /\ store = DataStore
    /\ disk = <<>>
    /\ nextUuid = FirstUuid
    /\ request = <<>>
    /\ last = Called("init", {}, <<>>, "none")

\* the ids of the history events of the store
EventIds(st) ==
    UNION {{st.projects[i].history[e].id : e \in DOMAIN st.projects[i].history} :
              i \in DOMAIN st.projects}

\* what a handler leaves behind; a logged event has taken the fresh id
Handle(op, ids, arg, r) ==
    /\ InBoundsHttp(r.store)
    /\ Commit(r)
    /\ last' = Called(op, ids, arg, r.exc)
    /\ nextUuid' = IF nextUuid \in EventIds(r.store) THEN nextUuid + 1 ELSE nextUuid
    /\ UNCHANGED request

CreateGroup ==
    \E group \in GroupPayloads :
        Handle("create_group", {group.id}, <<group>>, create_group(store, group))

UpdateGroup ==
    \E group_id \in GroupIds, group \in GroupPayloads :
        Handle("update_group", {group_id}, <<group>>,
               main_update_group(store, group_id, group))

DeleteGroup ==
    \E group_id \in GroupIds :
        Handle("delete_group", {group_id}, <<>>, main_delete_group(store, group_id))

CreateProject ==
    \E project \in ProjectPayloads :
        Handle("create_project", {project.id}, <<project>>,
               create_project(store, project, nextUuid))

HttpUpdateProject ==
    \E project_id \in HttpProjectIds, project \in ProjectPayloads :
        Handle("update_project", {project_id}, <<project>>,
               main_update_project(store, project_id, project, nextUuid))

HttpDeleteProject ==
    \E project_id \in HttpProjectIds :
        Handle("delete_project", {project_id}, <<>>,
               main_delete_project(store, project_id))

NextHttp ==
    \/ CreateGroup
    \/ UpdateGroup
    \/ DeleteGroup
    \/ CreateProject
    \/ HttpUpdateProject
    \/ HttpDeleteProject

SpecHttp == InitHttp /\ [][NextHttp]_vars

\* C28: through the handlers create_group, update_group, delete_group,
\* create_project, update_project and delete_project every stored project's
\* group_id is the id of a stored group.
C28_ProjectsReferStoredGroups ==
    \A i \in DOMAIN store.projects :
        \E g \in DOMAIN store.product_groups :
            store.product_groups[g].id = store.projects[i].group_id

\* a group that a stored project refers to was asked to be deleted and the
\* handler answered 400
C28_Witness ==
    /\ last.op = "delete_group" /\ last.exc = "HTTP 400"
    /\ \E i \in DOMAIN store.projects : store.projects[i].group_id \in last.ids

(***************************************************************************)
(* LocalRepository: the images of a project (storage.py).                  *)
(***************************************************************************)
\* ImageAttachment: the fields the repository reads
ImageAttachment(id, order, is_cover) == [id |-> id, order |-> order, is_cover |-> is_cover]

\* LocalRepository._normalize_cover; cover_image_id is 0 for None
normalize_cover(images, cover_image_id) ==
    IF cover_image_id = 0 THEN images
    ELSE [i \in DOMAIN images |->
             IF images[i].id # cover_image_id /\ images[i].is_cover
             THEN [images[i] EXCEPT !.is_cover = FALSE]
             ELSE images[i]]

\* the position of the first element of the list with the id, 0 when there
\* is none: "for idx, item in enumerate(items): if item.id == item_id"
IndexOfId(items, item_id) ==
    LET hits == {i \in DOMAIN items : items[i].id = item_id}
    IN  IF hits = {} THEN 0 ELSE CHOOSE i \in hits : \A j \in hits : i <= j

\* a repository whose clear_cover never saves
clear_cover_unsaved(st, project_id) ==
    LET p_idx == FirstIndex(st.projects, project_id)
    IN  IF p_idx = 0 THEN Ret(st, "KeyError", FALSE)
        ELSE Ret([st EXCEPT !.projects[p_idx].images =
                     [i \in DOMAIN @ |-> [@[i] EXCEPT !.is_cover = FALSE]]],
                 "none", FALSE)

\* LocalRepository.clear_cover: save() runs only when a cover was cleared
clear_cover(st, project_id) ==
    LET p_idx == FirstIndex(st.projects, project_id)
    IN  IF p_idx = 0 THEN Ret(st, "KeyError", FALSE)
        ELSE LET images  == st.projects[p_idx].images
                 changed == \E i \in DOMAIN images : images[i].is_cover
             IN  Ret([st EXCEPT !.projects[p_idx].images =
                         [i \in DOMAIN images |-> [images[i] EXCEPT !.is_cover = FALSE]]],
                     "none", changed)

\* LocalRepository.add_image
add_image(st, project_id, image) ==
    LET p_idx == FirstIndex(st.projects, project_id)
    IN  IF p_idx = 0 THEN Ret(st, "KeyError", FALSE)
        ELSE LET images == st.projects[p_idx].images
                 placed == IF image.order = 0 /\ images # <<>>
                           THEN [image EXCEPT !.order = Len(images)] ELSE image
             IN  Ret([st EXCEPT !.projects[p_idx].images =
                         normalize_cover(Append(images, placed),
                                         IF placed.is_cover THEN placed.id ELSE 0)],
                     "none", TRUE)

\* LocalRepository.update_image
update_image(st, project_id, image_id, updated) ==
    LET p_idx == FirstIndex(st.projects, project_id)
    IN  IF p_idx = 0 THEN Ret(st, "KeyError", FALSE)
        ELSE LET images  == st.projects[p_idx].images
                 img_idx == IndexOfId(images, image_id)
             IN  IF img_idx = 0 THEN Ret(st, "KeyError", FALSE)
                 ELSE Ret([st EXCEPT !.projects[p_idx].images =
                              normalize_cover([images EXCEPT ![img_idx] = updated],
                                              IF updated.is_cover THEN updated.id ELSE 0)],
                          "none", TRUE)

\* LocalRepository.delete_image
delete_image(st, project_id, image_id) ==
    LET p_idx == FirstIndex(st.projects, project_id)
    IN  IF p_idx = 0 THEN Ret(st, "KeyError", FALSE)
        ELSE LET img_idx == IndexOfId(st.projects[p_idx].images, image_id)
             IN  IF img_idx = 0 THEN Ret(st, "KeyError", FALSE)
                 ELSE Ret([st EXCEPT !.projects[p_idx].images = RemoveAt(@, img_idx)],
                          "none", TRUE)

(***************************************************************************)
(* Scenario SpecImages: the image operations of the repository, called in  *)
(* any order on the repository opened on StoreFile, whose projects have no *)
(* image.  The caller passes ImageAttachment models with the id of the     *)
(* payload.                                                                *)
(***************************************************************************)
MaxImages == 3
MaxImageId == 2

ImageInputs ==
    {ImageAttachment(id, order, is_cover) :
        id \in 1..MaxImageId, order \in {0, 1}, is_cover \in BOOLEAN}

\* the project ids of the calls: a stored project's and one that is no
\* project's
ImageProjectIds == {StoreFile.projects[1].id, FirstUuid}

InitImages ==
    /\ store = open_repository(StoreFile)
    /\ disk = save(open_repository(StoreFile))
    /\ nextUuid = FirstUuid
    /\ request = <<>>
    /\ last = Called("init", {}, <<>>, "none")

\* what a call of the repository leaves behind
Repo(op, ids, arg, r) ==
    /\ \A i \in DOMAIN r.store.projects : Len(r.store.projects[i].images) <= MaxImages
    /\ Commit(r)
    /\ last' = Called(op, ids, arg, r.exc)
    /\ UNCHANGED <<nextUuid, request>>

AddImage ==
    \E project_id \in ImageProjectIds, image \in ImageInputs :
        Repo("add_image", {project_id}, <<image>>, add_image(store, project_id, image))

UpdateImage ==
    \E project_id \in ImageProjectIds, image_id \in 1..MaxImageId, updated \in ImageInputs :
        Repo("update_image", {project_id}, <<updated, image_id>>,
             update_image(store, project_id, image_id, updated))

DeleteImage ==
    \E project_id \in ImageProjectIds, image_id \in 1..MaxImageId :
        Repo("delete_image", {project_id}, <<image_id>>,
             delete_image(store, project_id, image_id))

ClearCover ==
    \E project_id \in ImageProjectIds :
        Repo("clear_cover", {project_id}, <<>>, clear_cover(store, project_id))

NextImages ==
    \/ AddImage
    \/ UpdateImage
    \/ DeleteImage
    \/ ClearCover

SpecImages == InitImages /\ [][NextImages]_vars

\* the positions of the cover images of the project
Covers(project) == {i \in DOMAIN project.images : project.images[i].is_cover}

\* the last call added or updated an image with is_cover = true
CoverGiven ==
    /\ last.op \in {"add_image", "update_image"} /\ last.exc = "none"
    /\ last.arg[1].is_cover

\* C29: starting without a cover image, after any sequence of add_image,
\* update_image, delete_image and clear_cover a project has at most one
\* image with is_cover = true, and an image added or updated with
\* is_cover = true is the one that is the cover.
C29_AtMostOneCover ==
    \A p \in DOMAIN store.projects :
        /\ Cardinality(Covers(store.projects[p])) <= 1
        /\ (CoverGiven /\ store.projects[p].id \in last.ids) =>
               /\ Covers(store.projects[p]) # {}
               /\ \A i \in Covers(store.projects[p]) :
                      store.projects[p].images[i].id = last.arg[1].id

(***************************************************************************)
(* LocalRepository: GTM stages, GTM templates and tasks of a project       *)
(* (storage.py).                                                           *)
(***************************************************************************)
\* GTMTemplate: the fields apply_gtm_template reads
GTMTemplate(id, stages, tasks) == [id |-> id, stages |-> stages, tasks |-> tasks]

\* LocalRepository.get_gtm_template: the position of the template, 0 for None
get_gtm_template(st, template_id) == IndexOfId(st.gtm_templates, template_id)

\* LocalRepository.add_gtm_stage
add_gtm_stage(st, project_id, stage) ==
    LET idx == FirstIndex(st.projects, project_id)
    IN  IF idx = 0 THEN Ret(st, "KeyError", FALSE)
        ELSE LET stages == st.projects[idx].gtm_stages
                 placed == IF stage.order = 0 /\ stages # <<>>
                           THEN [stage EXCEPT !.order = Len(stages)] ELSE stage
             IN  Ret([st EXCEPT !.projects[idx].gtm_stages = Append(stages, placed)],
                     "none", TRUE)

\* LocalRepository.update_gtm_stage
update_gtm_stage(st, project_id, stage_id, updated) ==
    LET p_idx == FirstIndex(st.projects, project_id)
    IN  IF p_idx = 0 THEN Ret(st, "KeyError", FALSE)
        ELSE LET s_idx == IndexOfId(st.projects[p_idx].gtm_stages, stage_id)
             IN  IF s_idx = 0 THEN Ret(st, "KeyError", FALSE)
                 ELSE Ret([st EXCEPT !.projects[p_idx].gtm_stages[s_idx] = updated],
                          "none", TRUE)

\* LocalRepository.delete_gtm_stage
delete_gtm_stage(st, project_id, stage_id) ==
    LET p_idx == FirstIndex(st.projects, project_id)
    IN  IF p_idx = 0 THEN Ret(st, "KeyError", FALSE)
        ELSE LET s_idx == IndexOfId(st.projects[p_idx].gtm_stages, stage_id)
             IN  IF s_idx = 0 THEN Ret(st, "KeyError", FALSE)
                 ELSE Ret([st EXCEPT !.projects[p_idx].gtm_stages = RemoveAt(@, s_idx)],
                          "none", TRUE)

\* clone_stage of apply_gtm_template: the copy of a template stage under a
\* fresh id, reset to not started
clone_stage(stage, cloned_id) ==
    [stage EXCEPT !.id = cloned_id,
                  !.planned_start = NoneCell, !.planned_end = NoneCell,
                  !.actual_end = NoneCell, !.status = "not_started",
                  !.risk_flag = FALSE,
                  !.checklist = [i \in DOMAIN StableSort(@, OrderKeys(@)) |->
                                    [StableSort(@, OrderKeys(@))[i] EXCEPT !.done = FALSE]]]

\* stage_id_map[stage_id] after the template's stages were cloned in the
\* order "sorted" is the id of the last clone of a stage with this id; 0
\* when the id is not in the map
ClonedId(sorted, uuid, stage_id) ==
    LET hits == {i \in DOMAIN sorted : sorted[i].id = stage_id}
    IN  IF hits = {} THEN 0
        ELSE uuid + (CHOOSE i \in hits : \A j \in hits : j <= i) - 1

\* clone_task of apply_gtm_template
clone_task(task, cloned_id, gtm_stage_id) ==
    [task EXCEPT !.id = cloned_id, !.gtm_stage_id = gtm_stage_id,
                 !.status = "todo", !.due_date = NoneCell,
                 !.subtasks = [i \in DOMAIN StableSort(@, OrderKeys(@)) |->
                                  [StableSort(@, OrderKeys(@))[i] EXCEPT !.done = FALSE]],
                 !.comments = <<>>]

\* LocalRepository.apply_gtm_template; uuid is the first id uuid4() gives
apply_gtm_template(st, project_id, template_id, uuid) ==
    LET t_idx == get_gtm_template(st, template_id)
        p_idx == FirstIndex(st.projects, project_id)
    IN  IF t_idx = 0 THEN Ret(st, "KeyError", FALSE)
        ELSE IF p_idx = 0 THEN Ret(st, "KeyError", FALSE)
        ELSE LET template == st.gtm_templates[t_idx]
                 sorted   == StableSort(template.stages, OrderKeys(template.stages))
                 new_stages == [i \in DOMAIN sorted |-> clone_stage(sorted[i], uuid + i - 1)]
                 new_tasks  == [j \in DOMAIN template.tasks |->
                                   clone_task(template.tasks[j], uuid + Len(sorted) + j - 1,
                                              ClonedId(sorted, uuid,
                                                       template.tasks[j].gtm_stage_id))]
             IN  IF \E j \in DOMAIN template.tasks :
                        ClonedId(sorted, uuid, template.tasks[j].gtm_stage_id) = 0
                 THEN Ret(st, "KeyError", FALSE)
                 ELSE Ret([st EXCEPT !.projects[p_idx].gtm_stages = new_stages,
                                     !.projects[p_idx].tasks = new_tasks],
                          "none", TRUE)

\* LocalRepository.replace_gtm_stages(project_id, stages, tasks) with a list
\* of tasks
replace_gtm_stages_and_tasks(st, project_id, stages, tasks) ==
    LET p_idx == FirstIndex(st.projects, project_id)
    IN  IF p_idx = 0 THEN Ret(st, "KeyError", FALSE)
        ELSE Ret([st EXCEPT !.projects[p_idx].gtm_stages = stages,
                            !.projects[p_idx].tasks = tasks],
                 "none", TRUE)

\* "any(stage.id == gtm_stage_id for stage in project.gtm_stages)"
HasStage(project, gtm_stage_id) ==
    \E i \in DOMAIN project.gtm_stages : project.gtm_stages[i].id = gtm_stage_id

\* a repository that stores a task without looking at its stage
add_task_unchecked(st, project_id, task) ==
    LET p_idx == FirstIndex(st.projects, project_id)
    IN  IF p_idx = 0 THEN Ret(st, "KeyError", FALSE)
        ELSE Ret([st EXCEPT !.projects[p_idx].tasks = Append(@, task)], "none", TRUE)

\* LocalRepository.add_task; gtm_stage_id is 0 for None
add_task(st, project_id, task) ==
    LET p_idx == FirstIndex(st.projects, project_id)
    IN  IF p_idx = 0 THEN Ret(st, "KeyError", FALSE)
        ELSE IF task.gtm_stage_id = 0 THEN Ret(st, "ValueError", FALSE)
        ELSE IF ~HasStage(st.projects[p_idx], task.gtm_stage_id)
        THEN Ret(st, "ValueError", FALSE)
        ELSE Ret([st EXCEPT !.projects[p_idx].tasks = Append(@, task)], "none", TRUE)

\* LocalRepository.update_task
update_task(st, project_id, task_id, updated) ==
    LET p_idx == FirstIndex(st.projects, project_id)
    IN  IF p_idx = 0 THEN Ret(st, "KeyError", FALSE)
        ELSE IF updated.gtm_stage_id = 0 THEN Ret(st, "ValueError", FALSE)
        ELSE IF ~HasStage(st.projects[p_idx], updated.gtm_stage_id)
        THEN Ret(st, "ValueError", FALSE)
        ELSE LET t_idx == IndexOfId(st.projects[p_idx].tasks, task_id)
             IN  IF t_idx = 0 THEN Ret(st, "KeyError", FALSE)
                 ELSE Ret([st EXCEPT !.projects[p_idx].tasks[t_idx] = updated],
                          "none", TRUE)

\* LocalRepository.delete_task
delete_task(st, project_id, task_id) ==
    LET p_idx == FirstIndex(st.projects, project_id)
    IN  IF p_idx = 0 THEN Ret(st, "KeyError", FALSE)
        ELSE LET t_idx == IndexOfId(st.projects[p_idx].tasks, task_id)
             IN  IF t_idx = 0 THEN Ret(st, "KeyError", FALSE)
                 ELSE Ret([st EXCEPT !.projects[p_idx].tasks = RemoveAt(@, t_idx)],
                          "none", TRUE)

(***************************************************************************)
(* Scenario SpecGtm: the stage, template and task operations of the         *)
(* repository, called in any order on the repository opened on StoreFile    *)
(* with two GTM templates: one whose task is on its stage, one whose task   *)
(* names a stage the template does not have.                                *)
(***************************************************************************)
MaxStoredStages == 2
MaxTasks == 1
MaxFresh == 3

\* the stage and task ids of the payloads
StagePayloadIds == {5, 6}
TaskPayloadIds == {8, 9}

StagePayloads ==
    {GTMStage(id, <<"a">>, NoneCell, 0, "not_started", FALSE, <<>>) :
        id \in StagePayloadIds}

TaskPayloads ==
    {Task(id, <<"a">>, NoneCell, "todo", FALSE, "normal", gtm_stage_id) :
        id \in TaskPayloadIds, gtm_stage_id \in {0} \cup StagePayloadIds}
        \cup {Task(8, <<"a">>, NoneCell, "todo", FALSE, "normal", FirstUuid)}

GtmTemplates ==
    << GTMTemplate(20,
           << GTMStage(1, <<"b">>, NoneCell, 1, "done", TRUE, <<>>),
              GTMStage(2, <<"a">>, NoneCell, 0, "done", FALSE, <<>>) >>,
           << Task(3, <<"a">>, NoneCell, "done", FALSE, "normal", 1) >>),
       GTMTemplate(21,
           << GTMStage(1, <<"a">>, NoneCell, 0, "not_started", FALSE, <<>>) >>,
           << Task(3, <<"a">>, NoneCell, "todo", FALSE, "normal", 2) >>) >>

\* the template ids of the calls: the two templates' and one that is no
\* template's
TemplateIds == {20, 21, 22}

\* the project ids of the calls: a stored project's and one that is no
\* project's
GtmProjectIds == {StoreFile.projects[1].id, FirstUuid - 1}

\* the ids of the stages and of the tasks the store holds
StoredStageIds ==
    UNION {{store.projects[p].gtm_stages[i].id : i \in DOMAIN store.projects[p].gtm_stages} :
              p \in DOMAIN store.projects}
StoredTaskIds ==
    UNION {{store.projects[p].tasks[i].id : i \in DOMAIN store.projects[p].tasks} :
              p \in DOMAIN store.projects}

InBoundsGtm(st) ==
    \A p \in DOMAIN st.projects :
        /\ Len(st.projects[p].gtm_stages) <= MaxStoredStages
        /\ Len(st.projects[p].tasks) <= MaxTasks

InitGtm ==
    /\ store = [open_repository(StoreFile) EXCEPT !.gtm_templates = GtmTemplates]
    /\ disk = save([open_repository(StoreFile) EXCEPT !.gtm_templates = GtmTemplates])
    /\ nextUuid = FirstUuid
    /\ request = <<>>
    /\ last = Called("init", {}, <<>>, "none")

\* what a call of the repository leaves behind
Answer(op, ids, arg, r) ==
    /\ InBoundsGtm(r.store)
    /\ Commit(r)
    /\ last' = Called(op, ids, arg, r.exc)
    /\ UNCHANGED request

AddGtmStage ==
    \E project_id \in GtmProjectIds, stage \in StagePayloads :
        /\ Answer("add_gtm_stage", {project_id}, <<stage>>,
                  add_gtm_stage(store, project_id, stage))
        /\ UNCHANGED nextUuid

\* the caller passes the stage under the id it updates, as
\* main.update_gtm_stage does ("aligned")
UpdateGtmStage ==
    \E project_id \in GtmProjectIds, stage_id \in StoredStageIds \cup StagePayloadIds :
        \E stage \in StagePayloads :
            /\ Answer("update_gtm_stage", {project_id}, <<stage, stage_id>>,
                      update_gtm_stage(store, project_id, stage_id,
                                       [stage EXCEPT !.id = stage_id]))
            /\ UNCHANGED nextUuid

DeleteGtmStage ==
    \E project_id \in GtmProjectIds, stage_id \in StoredStageIds \cup StagePayloadIds :
        /\ Answer("delete_gtm_stage", {project_id}, <<stage_id>>,
                  delete_gtm_stage(store, project_id, stage_id))
        /\ UNCHANGED nextUuid

ReplaceGtmStages ==
    \E project_id \in GtmProjectIds, stages \in SeqsUpTo(StagePayloads, 1) :
        /\ Answer("replace_gtm_stages", {project_id}, <<stages>>,
                  replace_gtm_stages(store, project_id, stages))
        /\ UNCHANGED nextUuid

\* the caller passes stages and tasks that are on these stages, as a GTM
\* import returns them
ReplaceGtmStagesAndTasks ==
    \E project_id \in GtmProjectIds, stages \in SeqsUpTo(StagePayloads, 1) :
        \E tasks \in SeqsUpTo(TaskPayloads, 1) :
            /\ \A t \in DOMAIN tasks : \E i \in DOMAIN stages :
                   stages[i].id = tasks[t].gtm_stage_id
            /\ Answer("replace_gtm_stages", {project_id}, <<stages, tasks>>,
                      replace_gtm_stages_and_tasks(store, project_id, stages, tasks))
            /\ UNCHANGED nextUuid

ApplyGtmTemplate ==
    \E project_id \in GtmProjectIds, template_id \in TemplateIds :
        LET r == apply_gtm_template(store, project_id, template_id, nextUuid)
        IN  /\ nextUuid < FirstUuid + MaxFresh
            /\ Answer("apply_gtm_template", {project_id}, <<template_id>>, r)
            /\ nextUuid' = IF r.exc = "none"
                           THEN nextUuid + Len(r.store.projects[1].gtm_stages)
                                         + Len(r.store.projects[1].tasks)
                           ELSE nextUuid

AddTask ==
    \E project_id \in GtmProjectIds, task \in TaskPayloads :
        /\ Answer("add_task", {project_id}, <<task>>, add_task(store, project_id, task))
        /\ UNCHANGED nextUuid

\* the caller passes the task under the id it updates, as main.update_task
\* does
UpdateTask ==
    \E project_id \in GtmProjectIds, task_id \in StoredTaskIds \cup TaskPayloadIds :
        \E task \in TaskPayloads :
            /\ Answer("update_task", {project_id}, <<task, task_id>>,
                      update_task(store, project_id, task_id,
                                  [task EXCEPT !.id = task_id]))
            /\ UNCHANGED nextUuid

DeleteTask ==
    \E project_id \in GtmProjectIds, task_id \in StoredTaskIds \cup TaskPayloadIds :
        /\ Answer("delete_task", {project_id}, <<task_id>>,
                  delete_task(store, project_id, task_id))
        /\ UNCHANGED nextUuid

NextGtm ==
    \/ AddGtmStage
    \/ UpdateGtmStage
    \/ DeleteGtmStage
    \/ ReplaceGtmStages
    \/ ReplaceGtmStagesAndTasks
    \/ ApplyGtmTemplate
    \/ AddTask
    \/ UpdateTask
    \/ DeleteTask

SpecGtm == InitGtm /\ [][NextGtm]_vars

\* C27: after any sequence of add_gtm_stage, update_gtm_stage,
\* delete_gtm_stage, replace_gtm_stages, apply_gtm_template, add_task,
\* update_task and delete_task on a project, the gtm_stage_id of every task
\* the project stores is the id of a stage in the project's gtm_stages.
C27_TasksReferStoredStages ==
    \A p \in DOMAIN store.projects : \A t \in DOMAIN store.projects[p].tasks :
        HasStage(store.projects[p], store.projects[p].tasks[t].gtm_stage_id)

\* the position in the store of the project a call names, 0 when the store
\* has no such project
CalledProject(st, call) ==
    IF \E i \in DOMAIN st.projects : st.projects[i].id \in call.ids
    THEN CHOOSE i \in DOMAIN st.projects :
             /\ st.projects[i].id \in call.ids
             /\ \A j \in DOMAIN st.projects : st.projects[j].id \in call.ids => i <= j
    ELSE 0

\* the call names an id the store does not have: no such project, or for
\* an update or a deletion no such stage or task in the project, or no such
\* template
NamesMissingId(st, call) ==
    \/ CalledProject(st, call) = 0
    \/ /\ call.op \in {"update_gtm_stage", "delete_gtm_stage"}
       /\ ~HasStage(st.projects[CalledProject(st, call)], call.arg[Len(call.arg)])
    \/ /\ call.op = "delete_task"
       /\ IndexOfId(st.projects[CalledProject(st, call)].tasks, call.arg[1]) = 0
    \/ /\ call.op = "update_task"
       /\ IndexOfId(st.projects[CalledProject(st, call)].tasks, call.arg[2]) = 0
       /\ HasStage(st.projects[CalledProject(st, call)], call.arg[1].gtm_stage_id)
    \/ /\ call.op = "apply_gtm_template"
       /\ IndexOfId(st.gtm_templates, call.arg[1]) = 0

\* the call stores a task whose gtm_stage_id is None or no stage of the
\* project
NamesMissingStage(st, call) ==
    /\ call.op \in {"add_task", "update_task"}
    /\ CalledProject(st, call) # 0
    /\ ~HasStage(st.projects[CalledProject(st, call)], call.arg[1].gtm_stage_id)

\* the call applies a template one of whose tasks is on a stage the
\* template does not have
AppliesBrokenTemplate(st, call) ==
    /\ call.op = "apply_gtm_template"
    /\ \E t \in DOMAIN st.gtm_templates :
           /\ st.gtm_templates[t].id = call.arg[1]
           /\ \E k \in DOMAIN st.gtm_templates[t].tasks :
                  \A i \in DOMAIN st.gtm_templates[t].stages :
                      st.gtm_templates[t].stages[i].id
                          # st.gtm_templates[t].tasks[k].gtm_stage_id

apply_characteristics_bulk(st, updates) ==
    IF DOMAIN updates = {} THEN Ret(st, "none", FALSE)
    ELSE Ret([st EXCEPT !.projects =
                 [i \in DOMAIN st.projects |->
                     LET project == st.projects[i]
                     IN  IF project.id \in DOMAIN updates
                         THEN [project EXCEPT !.characteristics = updates[project.id]]
                         ELSE project]],
             "none", TRUE)

\* LocalRepository.create_backup: the files after the store was written to
\* the backup file of this name
create_backup(st, files, file_name) == (file_name :> model_dump_json(st)) @@ files

\* LocalRepository.restore_from_backup: the store is loaded from the file
\* and saved
restore_from_backup(st, files, file_name) ==
    IF file_name \notin DOMAIN files THEN Ret(st, "FileNotFoundError", FALSE)
    ELSE Ret(load_store(<<files[file_name]>>), "none", TRUE)

(***************************************************************************)
(* Scenario SpecBackup: a repository opened without a store file, on which *)
(* projects are added and deleted, images added, covers cleared,           *)
(* characteristics applied in bulk and backups created and restored, in    *)
(* any order.                                                              *)
(***************************************************************************)
MaxBackups == 2

\* the names of the backup files, in the order of the clock
BackupFiles == 2..(MaxBackups + 1)

\* the projects added: one without a short id
BackupProjects == {Project(3, <<>>, 1, <<"a">>)}

BackupImages == {ImageAttachment(1, 0, is_cover) : is_cover \in BOOLEAN}

\* the bulk updates: none, sections for a stored project's id, sections
\* for an id that is no project's
BulkUpdates ==
    { <<>>,
      (3 :> << CharacteristicSection(6, <<"a">>, 0, <<>>) >>),
      (4 :> << CharacteristicSection(6, <<"a">>, 0, <<>>) >>) }

InBoundsBackup(st) ==
    /\ Len(st.projects) <= 1
    /\ st.next_project_short_id <= MaxShortId
    /\ \A i \in DOMAIN st.projects : Len(st.projects[i].images) <= 1

InitBackup ==
    /\ store = DataStore
    /\ disk = <<>>
    /\ nextUuid = FirstUuid
    /\ request = <<>>
    /\ last = Called("init", {}, <<>>, "none")

\* what a call of the repository leaves behind
Done(op, ids, arg, r) ==
    /\ InBoundsBackup(r.store)
    /\ Commit(r)
    /\ last' = Called(op, ids, arg, r.exc)
    /\ UNCHANGED <<nextUuid, request>>

BackupAddProject ==
    \E project \in BackupProjects :
        Done("add_project", {project.id}, <<project>>, add_project(store, project))

BackupDeleteProject ==
    \E project \in BackupProjects :
        Done("delete_project", {project.id}, <<>>, delete_project(store, project.id))

BackupAddImage ==
    \E project \in BackupProjects, image \in BackupImages :
        Done("add_image", {project.id}, <<image>>, add_image(store, project.id, image))

BackupClearCover ==
    \E project \in BackupProjects :
        Done("clear_cover", {project.id}, <<>>, clear_cover(store, project.id))

ApplyCharacteristicsBulk ==
    \E updates \in BulkUpdates :
        Done("apply_characteristics_bulk", DOMAIN updates, <<updates>>,
             apply_characteristics_bulk(store, updates))

\* the clock does not run backwards: the file is named as the latest
\* backup (written in the same second) or later
CreateBackup ==
    \E file_name \in BackupFiles :
        /\ \A f \in DOMAIN disk \cap BackupFiles : f <= file_name
        /\ disk' = create_backup(store, disk, file_name)
        /\ last' = Called("create_backup", {file_name}, <<>>, "none")
        /\ UNCHANGED <<store, nextUuid, request>>

RestoreFromBackup ==
    \E file_name \in BackupFiles :
        Done("restore_from_backup", {file_name}, <<>>,
             restore_from_backup(store, disk, file_name))

NextBackup ==
    \/ BackupAddProject
    \/ BackupDeleteProject
    \/ BackupAddImage
    \/ BackupClearCover
    \/ ApplyCharacteristicsBulk
    \/ CreateBackup
    \/ RestoreFromBackup

SpecBackup == InitBackup /\ [][NextBackup]_vars

\* the store a backup file was written from
StoreOfFile(f) == load_store(<<disk[f]>>)

\* C21: after create_backup, any sequence of repository mutations and then
\* restore_from_backup of the created file, the store in memory and the
\* primary JSON document equal the store at the moment of create_backup.
\* In steps: create_backup writes a file from which the store of that
\* moment loads; no repository mutation and no restore touches a backup
\* file; restore_from_backup of a file makes the store the one the file
\* loads to and the primary document its serialization.
C21_RestoreGivesBackedUpStore ==
    [][/\ last'.op = "create_backup" =>
              \A f \in last'.ids :
                  /\ f \in DOMAIN disk'
                  /\ load_store(<<disk'[f]>>) = store
                  /\ store' = store
       /\ last'.op # "create_backup" =>
              \A f \in DOMAIN disk \cap BackupFiles :
                  f \in DOMAIN disk' /\ disk'[f] = disk[f]
       /\ (last'.op = "restore_from_backup" /\ last'.exc = "none") =>
              \A f \in last'.ids :
                  /\ store' = StoreOfFile(f)
                  /\ 1 \in DOMAIN disk' /\ <<disk'[1]>> = save(StoreOfFile(f))]_vars

\* the first backup was restored after the store had changed: a later
\* backup holds another store, and the store in memory and the document
\* are those of the first backup again
C21_Witness ==
    /\ last.op = "restore_from_backup" /\ last.exc = "none" /\ last.ids = {2}
    /\ DOMAIN disk = {1, 2, 3}
    /\ StoreOfFile(3) # StoreOfFile(2)
    /\ store = StoreOfFile(2) /\ store.projects # <<>>
    /\ <<disk[1]>> = save(store)

\* the primary document is the serialization of the store in memory
PrimaryInSync(st, files) == 1 \in DOMAIN files /\ <<files[1]>> = save(st)

\* the mutating operations of the repository (create_backup is none)
Mutated(call) == call.op \notin {"init", "create_backup"} /\ call.exc = "none"

====
